---- MODULE Spec2Model ----
(***************************************************************************)
(* Model of motors_sync.py: the synchronization controller                 *)
(* (MotorsSync.cmd_SYNC_MOTORS, _run_sync, _single_sync, _axes_level,      *)
(* handle_state, measure, single_move), the per-axis run state             *)
(* (MotionAxis), the two sensor helpers' direction detection and their     *)
(* blocking wait for samples.                                              *)
(*                                                                         *)
(* One synchronization command is a sequential program; pc is its position *)
(* and every action is one step of it that issues at most one micro-move   *)
(* or one measurement.  A measurement's result is an input: a magnitude    *)
(* drawn from MagValues (signed for the encoder), or the sensor timeout.   *)
(***************************************************************************)
EXTENDS Integers, Sequences, FiniteSets, TLC

\* ------------------------------------------------------------------ bounds
\* measurements a run of the model may take
MaxMeasures == 9
\* largest configured retries value of the model (the code allows 0..10)
MaxRetriesCfg == 1
\* largest configured max_step_size of the model (the code allows 1..microsteps/2)
MaxStepCfg == 2
\* the configured non-zero retry tolerance of the model
RetryTol == 20000
\* the magnitudes a measurement may return (0.4, 1.2 and 1.8 steps of the model)
MagValues == {8000, 24000, 36000}
\* the negative raw deviations the encoder may return
EncoderNegatives == {-24000}
\* the raw deviations of an encoder whose shaft may also be found in place
EncoderAroundZero == {-24000, 0, 36000}
\* the largest offset kept of a run that is followed without end
MaxOffset == 3

\* ------------------------------------------------------- program constants
AXES_LEVEL_DELTA == 2000
\* def_steps_model = ['linear', [20000, 0]]: the accelerometer default, and the
\* model an encoder axis is given by "model: linear"
model_a == 20000
model_b == 0
\* MotionAxis.move_msteps after construction and after flush_motion_data
INIT_MOVE_MSTEPS == 2

AxisNames == {"x", "y"}
Abs(n) == IF n < 0 THEN -n ELSE n
Min2(a, b) == IF a < b THEN a ELSE b
Max2(a, b) == IF a > b THEN a ELSE b

VARIABLES
    chip,             \* chip_helper.chip_type of the axes: "accelerometer" | "encoder"
    sync_method,      \* MotorsSync.sync_method
    max_step_size,    \* MotionAxis.max_step_size (common to the axes)
    retry_tolerance,  \* MotionAxis.retry_tolerance, per axis (0: not configured)
    max_retries,      \* MotionAxis.max_retries, per axis
    counting,         \* the model counts the log entries and the offsets exactly
    enc_values,       \* the signed deviations an extraction of the encoder may return
    measure_cap,      \* measurements of one counted run the model follows
    axes,             \* MotorsSync.axes: the axes of the running command
    force_run,        \* cmd_SYNC_MOTORS(force_run), until the tolerance check read it
    ax,               \* the run state of each MotionAxis
    raw_deviation,    \* EncoderHelper.raw_deviation, per axis
    started,          \* start_measurements calls of the run, per axis
    finish_calls,     \* finish_measurements calls of the run, per axis
    main_enabled,     \* enable line of steppers[0], per axis
    fan_on,           \* state of the head fan, per axis
    pc,               \* position of the command
    ret,              \* where detect_move_dir returns to
    cur_m,            \* "m" of the running handler
    cur_s,            \* "s" of the running handler
    order,            \* the list _run_sync iterates
    idx,              \* position in that list
    check_axis,       \* _run_sync's check_axis
    force_exit,       \* _axes_level's force_exit
    err,              \* the error the command raised, "" when none
    stats,            \* the records write_log handed to the statistics manager in the command
    done_reports,     \* axes for which the 'done' message was sent
    op,               \* the move or measurement the last step issued
    moved,            \* a move was issued for the axis in the run
    track,            \* per axis: the microsteps of the moves issued in the run, and the
                      \* offsets before the last move that was not a revert
    premove_below,    \* every measurement before the first move was below tolerance
    w_pc,             \* position of _wait_samples, "off" outside it
    w_clock,          \* reactor.monotonic(), in units of 10 ms
    w_now,            \* _wait_samples' now
    w_lim,            \* _wait_samples' lim
    w_samples,        \* timestamps of the buffered samples, in arrival order
    w_end,            \* request_end_time
    helper,           \* an EncoderHelper and its registrations with the sensor
    fn_pc,            \* position of a call of a pure function, "off" outside it
    fn_args,          \* the arguments of that call
    fn_result,        \* what the call returned
    kf,               \* the KalmanLiteFilter object
    kf_calls          \* its process_samples calls: <<samples, returned array>>

vars == <<chip, sync_method, max_step_size, retry_tolerance, max_retries, axes,
          force_run, ax, raw_deviation, started, finish_calls, main_enabled,
          fan_on, pc, ret, cur_m, cur_s, order, idx, check_axis, force_exit,
          err, stats, done_reports, op, moved, track, premove_below,
          w_pc, w_clock, w_now, w_lim, w_samples, w_end, helper, counting, enc_values,
          measure_cap, fn_pc, fn_args, fn_result, kf, kf_calls>>

wait_vars == <<w_pc, w_clock, w_now, w_lim, w_samples, w_end, helper>>

config_vars == <<chip, sync_method, max_step_size, retry_tolerance, max_retries,
                 counting, enc_values, measure_cap>>

calc_vars == <<fn_pc, fn_args, fn_result, kf, kf_calls>>

\* history: no move was issued for the axis in the run
NoMoves == [issued |-> 0, pre_actual |-> 0, pre_check |-> 0]

NoOp == [kind |-> "none", axis |-> "", msteps |-> 0]
MoveOp(a, n) == [kind |-> "move", axis |-> a, msteps |-> n]
MeasureOp(a) == [kind |-> "measure", axis |-> a, msteps |-> 0]

\* MotionAxis.__init__ / flush_motion_data: the run-state fields
FlushedAxis ==
    [move_dir |-> 1, dir_name |-> "unknown", move_msteps |-> INIT_MOVE_MSTEPS,
     actual_msteps |-> 0, check_msteps |-> 0, init_magnitude |-> 0,
     magnitude |-> 0, new_magnitude |-> 0, curr_retry |-> 0,
     is_finished |-> FALSE, log_len |-> 0]

\* axes_steps_diff: default max_step_size + 1
axes_steps_diff == max_step_size + 1

\* int(): truncation toward zero of num/den, den > 0
TruncDiv(num, den) == IF num >= 0 THEN num \div den ELSE -((-num) \div den)

\* MATH_MODELS["polynomial"] for the linear model a*x + b: the root of
\* a*x + (b - fx), as the fraction <<numerator, denominator>>
model_solve_num(fx) == fx - model_b

\* min(max(steps, 1), max_step_size)
ClampSteps(steps) == Min2(Max2(steps, 1), max_step_size)

\* round() and np.around(): num/den, den > 0, to the nearest integer, halves
\* to the even one (\div rounds down, % is never negative)
RoundDiv(num, den) ==
    LET q == num \div den
        r == num % den
    IN  IF 2 * r < den THEN q
        ELSE IF 2 * r > den THEN q + 1
        ELSE IF q % 2 = 0 THEN q ELSE q + 1

\* a slip: round() in place of int()
SingleSyncSteps_Round(m) ==
    ClampSteps(RoundDiv(model_solve_num(ax[m].new_magnitude), model_a))

\* _single_sync: min(max(int(m.model_solve()), 1), m.max_step_size)
SingleSyncSteps(m) ==
    ClampSteps(TruncDiv(model_solve_num(ax[m].new_magnitude), model_a))

\* _axes_level: int(m.model_solve() - m.model_solve(s.magnitude)), clamped
AxesLevelSteps(m, s) ==
    ClampSteps(TruncDiv(model_solve_num(ax[m].new_magnitude)
                          - model_solve_num(ax[s].magnitude), model_a))

\* what calc_deviation may return for an axis: the signed raw value
Outcomes ==
    IF chip = "encoder"
    THEN enc_values
    ELSE MagValues

\* update_log, as the number of entries of axis.log; a run that is followed
\* without end keeps no count
LogAppend(f, a) == [f EXCEPT ![a].log_len = IF counting THEN @ + 1 ELSE @]


InRun(a) == \E i \in 1..Len(axes) : axes[i] = a

\* MotionAxis.joint_axes: joint_ax = {'x': ['y'], 'y': ['x']} on the kinematics
\* with interconnected axes, the only ones _init_sync_method accepts the
\* alternately and synchronous methods for
joint_axes(a) ==
    IF sync_method \in {"alternately", "synchronous"}
    THEN AxisNames \ {a}
    ELSE {}

\* the branch of _run_sync a command takes
Policy ==
    IF sync_method = "alternately" /\ Len(axes) > 1 THEN "alt"
    ELSE IF sync_method = "synchronous" /\ Len(axes) > 1 THEN "sync"
    ELSE "seq"

\* where _single_sync returns to: the loop of the running policy
LoopPc == CASE Policy = "alt" -> "alt_loop"
            [] Policy = "sync" -> "sync_loop"
            [] OTHER -> "seq_loop"

AllFinished(f) == \A i \in 1..Len(axes) : f[axes[i]].is_finished

\* the value an extraction returns: abs(deviation) for the encoder
Magnitude(out) == IF chip = "encoder" THEN Abs(out) ELSE out

\* ------------------------------------------------------------------ Init
\* the controller between commands, after construction
ControllerIdle ==
    /\ axes = <<>>
    /\ force_run = FALSE
    /\ ax = [a \in AxisNames |-> FlushedAxis]
    /\ raw_deviation = [a \in AxisNames |-> 0]
    /\ started = [a \in AxisNames |-> 0]
    /\ finish_calls = [a \in AxisNames |-> 0]
    /\ main_enabled = [a \in AxisNames |-> TRUE]
    /\ fan_on = [a \in AxisNames |-> TRUE]
    /\ pc = "idle"
    /\ ret = ""
    /\ cur_m = "x"
    /\ cur_s = "y"
    /\ order = <<>>
    /\ idx = 1
    /\ check_axis = FALSE
    /\ force_exit = FALSE
    /\ err = ""
    /\ stats = {}
    /\ done_reports = {}
    /\ op = NoOp
    /\ moved = [a \in AxisNames |-> FALSE]
    /\ track = [a \in AxisNames |-> NoMoves]
    /\ premove_below = [a \in AxisNames |-> FALSE]

\* a KalmanLiteFilter(A, H, Q, R, P0, x0) after construction
KalmanLiteFilter(A, H, Q, R, P0, x0) ==
    [A |-> A, H |-> H, Q |-> Q, R |-> R, P |-> P0, st_p |-> P0,
     x |-> x0, st_x |-> x0]

\* no pure function is being called; the default filter object is not used
CalcOff ==
    /\ fn_pc = "off"
    /\ fn_args = <<>>
    /\ fn_result = <<>>
    /\ kf = KalmanLiteFilter(1, 1, 0, 1, 1, 0)
    /\ kf_calls = <<>>

\* EncoderHelper.__init__: is_finished = False, and no handle_batch
\* registered; no run holds the helper, no batch was produced
NoClient == [running |-> FALSE, is_finished |-> FALSE, clients |-> 0, batches |-> 0]

\* no _wait_samples is running
WaitOff ==
    /\ w_pc = "off"
    /\ w_clock = 0
    /\ w_now = 0
    /\ w_lim = 0
    /\ w_samples = <<>>
    /\ w_end = 0
    /\ helper = NoClient

Init ==
    /\ chip \in {"accelerometer", "encoder"}
    /\ sync_method \in {"sequential", "alternately", "synchronous"}
    /\ max_step_size \in 1..MaxStepCfg
    /\ \E t \in {0, RetryTol} : retry_tolerance = [a \in AxisNames |-> t]
    /\ \E r \in 0..MaxRetriesCfg : max_retries = [a \in AxisNames |-> r]
    \* retries is read only when a retry tolerance is configured
    /\ retry_tolerance["x"] = 0 => max_retries["x"] = 0
    /\ counting = TRUE
    /\ enc_values = MagValues \cup EncoderNegatives
    /\ measure_cap = MaxMeasures
    /\ ControllerIdle
    /\ WaitOff
    /\ CalcOff

\* ------------------------------------------------- measure and single_move
\* measure(axis) whose calc_deviation raised the sensor timeout: the buzz and
\* the toggles were issued, the error leaves the command
MeasureTimeout(a) ==
    /\ pc' = "raised"
    /\ err' = "No data from sensor"
    /\ main_enabled' = [main_enabled EXCEPT ![a] = FALSE]
    /\ op' = MeasureOp(a)
    /\ UNCHANGED <<raw_deviation, ret, cur_m, cur_s, order, idx, check_axis,
                   force_exit, stats, done_reports, moved, track, premove_below>>

\* measure(axis) that returned: buzz(axis, 5) leaves the main stepper disabled,
\* the encoder helper keeps the signed deviation
MeasureDone(a, out) ==
    /\ main_enabled' = [main_enabled EXCEPT ![a] = FALSE]
    /\ raw_deviation' = IF chip = "encoder"
                        THEN [raw_deviation EXCEPT ![a] = out]
                        ELSE raw_deviation
    /\ op' = MeasureOp(a)

\* history: the measurements of an axis before its first move of the run
PremoveNext(a, out, first) ==
    LET below == retry_tolerance[a] # 0 /\ Magnitude(out) < retry_tolerance[a]
    IN  premove_below' =
            [premove_below EXCEPT ![a] =
                IF first THEN below
                ELSE IF ~moved[a] THEN @ /\ below ELSE @]

\* single_move(axis, dir): the signed microsteps it commands
MoveMsteps(f, a, dir) == f[a].move_msteps * f[a].move_dir * dir

\* the offsets of a run that is followed without end are kept up to
\* MaxOffset microsteps either way: the code only tests them for zero
Offset(n) ==
    IF counting THEN n ELSE Max2(Min2(n, MaxOffset), -MaxOffset)

\* a slip: the re-check offset is advanced whatever the sense of the move
single_move_CheckForward(f, a, dir) ==
    [f EXCEPT ![a].actual_msteps = Offset(@ + MoveMsteps(f, a, dir)),
              ![a].check_msteps = Offset(@ + MoveMsteps(f, a, 1))]

\* single_move(axis, dir): the offsets after it
single_move(f, a, dir) ==
    [f EXCEPT ![a].actual_msteps = Offset(@ + MoveMsteps(f, a, dir)),
              ![a].check_msteps = Offset(@ + MoveMsteps(f, a, dir))]

\* the model follows a counted run for MaxMeasures measurements
MeasureAllowed ==
    counting => ax["x"].log_len + ax["y"].log_len < measure_cap

MoveDone(f, a, dir) ==
    /\ op' = MoveOp(a, MoveMsteps(f, a, dir))
    /\ moved' = [moved EXCEPT ![a] = TRUE]
    /\ track' = [track EXCEPT ![a] =
                   [issued |-> Offset(@.issued + MoveMsteps(f, a, dir)),
                    pre_actual |-> IF dir = 1 THEN f[a].actual_msteps
                                   ELSE @.pre_actual,
                    pre_check |-> IF dir = 1 THEN f[a].check_msteps
                                  ELSE @.pre_check]]

\* ------------------------------------------------------- cmd_SYNC_MOTORS
AxesChoices == {<<"x">>, <<"x", "y">>}

CmdSyncMotors ==
    /\ pc = "idle"
    /\ axes' \in AxesChoices
    /\ force_run' \in BOOLEAN
    /\ pc' = "start"
    /\ idx' = 1
    /\ err' = ""
    /\ op' = NoOp
    /\ started' = [a \in AxisNames |-> 0]
    /\ finish_calls' = [a \in AxisNames |-> 0]
    /\ moved' = [a \in AxisNames |-> FALSE]
    /\ track' = [a \in AxisNames |-> NoMoves]
    /\ premove_below' = [a \in AxisNames |-> FALSE]
    /\ done_reports' = {}
    \* the records of this command
    /\ stats' = {}
    /\ UNCHANGED <<config_vars, calc_vars, wait_vars, ax, raw_deviation, main_enabled, fan_on, ret,
                   cur_m, cur_s, order, check_axis, force_exit>>

\* a slip: the flush leaves the retry counter of the previous run
flush_motion_data_KeepRetry(f, a) ==
    [f EXCEPT ![a] = [FlushedAxis EXCEPT !.curr_retry = f[a].curr_retry]]

\* MotionAxis.flush_motion_data: every run-state field, no other field
flush_motion_data(f, a) == [f EXCEPT ![a] = FlushedAxis]

\* handle_state(axis, 'start') for the next axis of self.axes
StartAxis ==
    /\ pc = "start"
    /\ LET a == axes[idx]
           flushed == flush_motion_data(ax, a)
       IN  /\ fan_on' = [fan_on EXCEPT ![a] = FALSE]
           /\ started' = [started EXCEPT ![a] = @ + 1]
           /\ \/ /\ ax' = flushed
                 /\ MeasureTimeout(a)
              \/ \E out \in Outcomes :
                 /\ ax' = LogAppend(
                            [flushed EXCEPT ![a].init_magnitude = Magnitude(out),
                                            ![a].magnitude = Magnitude(out)], a)
                 /\ MeasureDone(a, out)
                 /\ PremoveNext(a, out, TRUE)
                 /\ idx' = IF idx < Len(axes) THEN idx + 1 ELSE 1
                 /\ pc' = IF idx < Len(axes) THEN "start" ELSE "check_tol"
                 /\ UNCHANGED <<ret, cur_m, cur_s, order, check_axis,
                                force_exit, err, stats, done_reports, moved, track>>
    /\ UNCHANGED <<config_vars, calc_vars, wait_vars, axes, force_run, finish_calls>>

\* "Check if all axes in tolerance": finish every axis without a 'done'
InTolerance ==
    /\ pc = "check_tol"
    /\ ~force_run
    /\ \A i \in 1..Len(axes) :
          ax[axes[i]].init_magnitude < retry_tolerance[axes[i]]
    /\ finish_calls' = [a \in AxisNames |->
                          IF InRun(a) THEN finish_calls[a] + 1 ELSE finish_calls[a]]
    /\ fan_on' = [a \in AxisNames |-> IF InRun(a) THEN TRUE ELSE fan_on[a]]
    /\ pc' = "final"
    /\ force_run' = FALSE
    /\ op' = NoOp
    /\ UNCHANGED <<config_vars, calc_vars, wait_vars, axes, ax, raw_deviation, started,
                   main_enabled, ret, cur_m, cur_s, order, idx, check_axis,
                   force_exit, err, stats, done_reports, moved, track, premove_below>>


\* ------------------------------------------------------------ handle_state
\* a slip: 'done' leaves the measurements of the axis running
DoneFinish_Never(a) == finish_calls

\* handle_state(axis, 'done'): the finish calls after it
DoneFinish(a) == [finish_calls EXCEPT ![a] = @ + 1]

\* handle_state(axis, 'error'): finish_measurements for every axis of the run
ErrorFinish(fc) == [a \in AxisNames |-> IF InRun(a) THEN fc[a] + 1 ELSE fc[a]]

\* write_log(axis): the record of one axis, skipped while actual_msteps is 0
StatRecords(f, as, status) ==
    {[name |-> a, status |-> status, retries |-> f[a].curr_retry,
      pos |-> f[a].actual_msteps] : a \in {b \in as : f[b].actual_msteps # 0}}

\* a slip: the retry keeps the cached direction
handle_state_retry_KeepDir(f, m) == f

\* handle_state(axis, 'retry'): "axis.move_dir[1] = 'unknown'"
handle_state_retry(f, m) == [f EXCEPT ![m].dir_name = "unknown"]

\* a slip: handle_state(m, 'error') does not raise, the retry goes on
TooManyRetries_NoRaise(f, m) ==
    /\ ax' = [f EXCEPT ![m].dir_name = "unknown"]
    /\ stats' = stats \cup StatRecords(f, {m}, FALSE)
    /\ fan_on' = [a \in AxisNames |-> IF InRun(a) \/ a = m THEN TRUE ELSE fan_on[a]]
    /\ finish_calls' = ErrorFinish(DoneFinish(m))
    /\ main_enabled' = [main_enabled EXCEPT ![m] = TRUE]
    /\ done_reports' = done_reports \cup {m}
    /\ err' = err
    /\ pc' = LoopPc
    /\ UNCHANGED <<ret, cur_m, cur_s, order, idx, check_axis, force_exit>>

\* the retries of an axis are exhausted: write_log(m), handle_state(m, 'done')
\* and handle_state(m, 'error'), which raises
TooManyRetries(f, m) ==
    /\ ax' = f
    /\ stats' = stats \cup StatRecords(f, {m}, FALSE)
    /\ fan_on' = [a \in AxisNames |-> IF InRun(a) \/ a = m THEN TRUE ELSE fan_on[a]]
    /\ finish_calls' = ErrorFinish(DoneFinish(m))
    /\ main_enabled' = [main_enabled EXCEPT ![m] = TRUE]
    /\ done_reports' = done_reports \cup {m}
    /\ err' = "Too many retries"
    /\ pc' = "raised"
    /\ UNCHANGED <<ret, cur_m, cur_s, order, idx, check_axis, force_exit>>

\* ------------------------------------------------------- detect_move_dir
\* a slip: a deviation of zero also reads as backward
SignSaysBackward_OnZero(dev) == dev <= 0

\* EncoderHelper._detect_move_dir: "if self.raw_deviation < 0"
SignSaysBackward(dev) == dev < 0

\* a slip: new_magnitude is left as it was
sign_detected_StaleNew(f, m, dev) ==
    [f EXCEPT ![m].move_dir = IF SignSaysBackward(dev) THEN -1 ELSE 1,
              ![m].dir_name = IF SignSaysBackward(dev)
                              THEN "Backward" ELSE "Forward"]

\* EncoderHelper._detect_move_dir: the axis after it
sign_detected(f, m, dev) ==
    [f EXCEPT ![m].move_dir = IF SignSaysBackward(dev) THEN -1 ELSE 1,
              ![m].dir_name = IF SignSaysBackward(dev)
                              THEN "Backward" ELSE "Forward",
              ![m].new_magnitude = f[m].magnitude]

\* EncoderHelper._detect_move_dir: the sign of the last raw deviation
DetectSign ==
    /\ pc = "dmd"
    /\ chip = "encoder"
    /\ ax' = sign_detected(ax, cur_m, raw_deviation[cur_m])
    /\ pc' = ret
    /\ op' = NoOp
    /\ UNCHANGED <<config_vars, calc_vars, wait_vars, axes, force_run, raw_deviation, started,
                   finish_calls, main_enabled, fan_on, ret, cur_m, cur_s, order,
                   idx, check_axis, force_exit, err, stats, done_reports, moved, track,
                   premove_below>>

\* AccelHelper._detect_move_dir: move_dir = [1, 'unknown'] and the probe move
DetectProbeMove ==
    /\ pc = "dmd"
    /\ chip = "accelerometer"
    /\ LET f == [ax EXCEPT ![cur_m].move_dir = 1, ![cur_m].dir_name = "unknown"]
       IN  /\ ax' = single_move(f, cur_m, 1)
           /\ MoveDone(f, cur_m, 1)
    /\ pc' = "dmd_meas"
    /\ UNCHANGED <<config_vars, calc_vars, wait_vars, axes, force_run, raw_deviation, started,
                   finish_calls, main_enabled, fan_on, ret, cur_m, cur_s, order,
                   idx, check_axis, force_exit, err, stats, done_reports,
                   premove_below>>

\* a slip: an unchanged magnitude also reads as backward
ProbeSaysBackward_OnEqual(new, old) == new >= old

\* AccelHelper._detect_move_dir: "if self.axis.new_magnitude > self.axis.magnitude"
ProbeSaysBackward(new, old) == new > old

\* AccelHelper._detect_move_dir: the measurement after the probe, the direction
DetectProbeMeasure ==
    /\ pc = "dmd_meas"
    /\ MeasureAllowed
    /\ \/ /\ MeasureTimeout(cur_m)
          /\ UNCHANGED ax
       \/ \E out \in Outcomes :
          /\ MeasureDone(cur_m, out)
          /\ PremoveNext(cur_m, out, FALSE)
          /\ LET back == ProbeSaysBackward(Magnitude(out), ax[cur_m].magnitude)
             IN  ax' = LogAppend(
                         [ax EXCEPT ![cur_m].new_magnitude = Magnitude(out),
                                    ![cur_m].magnitude = Magnitude(out),
                                    ![cur_m].move_dir = IF back THEN -1 ELSE 1,
                                    ![cur_m].dir_name = IF back THEN "Backward"
                                                        ELSE "Forward"], cur_m)
          /\ pc' = ret
          /\ UNCHANGED <<ret, cur_m, cur_s, order, idx, check_axis, force_exit,
                         err, stats, done_reports, moved, track>>
    /\ UNCHANGED <<config_vars, calc_vars, wait_vars, axes, force_run, started, finish_calls, fan_on>>


\* ----------------------------------------------------------- _single_sync
\* _single_sync(m, check_axis=True): measure only
SS_CheckAxis ==
    /\ pc = "ss_entry"
    /\ check_axis
    /\ MeasureAllowed
    /\ \/ /\ MeasureTimeout(cur_m)
          /\ UNCHANGED ax
       \/ \E out \in Outcomes :
          /\ MeasureDone(cur_m, out)
          /\ PremoveNext(cur_m, out, FALSE)
          /\ ax' = LogAppend([ax EXCEPT ![cur_m].new_magnitude = Magnitude(out),
                                        ![cur_m].magnitude = Magnitude(out)], cur_m)
          /\ pc' = LoopPc
          /\ check_axis' = FALSE
          /\ UNCHANGED <<ret, cur_m, cur_s, order, idx, force_exit, err, stats,
                         done_reports, moved, track>>
    /\ UNCHANGED <<config_vars, calc_vars, wait_vars, axes, force_run, started, finish_calls, fan_on>>

\* the zero-move exit of _single_sync
InToleranceUnmoved(f, m) ==
    /\ f[m].actual_msteps = 0
    /\ retry_tolerance[m] # 0
    /\ f[m].new_magnitude < retry_tolerance[m]

\* _single_sync with an unknown direction: the static measurement, the
\* tolerance check, then detect_move_dir
SS_Unknown ==
    /\ pc = "ss_entry"
    /\ ~check_axis
    /\ ax[cur_m].dir_name = "unknown"
    /\ IF ax[cur_m].actual_msteps = 0 \/ ax[cur_m].curr_retry # 0
       THEN \/ /\ MeasureAllowed
               /\ MeasureTimeout(cur_m)
               /\ UNCHANGED ax
            \/ \E out \in Outcomes :
               MeasureAllowed /\
               LET f == LogAppend(
                          [ax EXCEPT ![cur_m].new_magnitude = Magnitude(out),
                                     ![cur_m].magnitude = Magnitude(out)], cur_m)
               IN  /\ MeasureDone(cur_m, out)
                   /\ PremoveNext(cur_m, out, FALSE)
                   /\ IF InToleranceUnmoved(f, cur_m)
                      THEN /\ ax' = [f EXCEPT ![cur_m].is_finished = TRUE]
                           /\ pc' = LoopPc
                           /\ ret' = ret
                      ELSE /\ ax' = f
                           /\ pc' = "dmd"
                           /\ ret' = "ss_move"
                   /\ UNCHANGED <<cur_m, cur_s, order, idx, check_axis, force_exit,
                                  err, stats, done_reports, moved, track>>
       ELSE /\ IF InToleranceUnmoved(ax, cur_m)
               THEN /\ ax' = [ax EXCEPT ![cur_m].is_finished = TRUE]
                    /\ pc' = LoopPc
                    /\ ret' = ret
               ELSE /\ ax' = ax
                    /\ pc' = "dmd"
                    /\ ret' = "ss_move"
            /\ op' = NoOp
            /\ UNCHANGED <<raw_deviation, main_enabled, cur_m, cur_s, order, idx,
                           check_axis, force_exit, err, stats, done_reports,
                           moved, track, premove_below>>
    /\ UNCHANGED <<config_vars, calc_vars, wait_vars, axes, force_run, started, finish_calls, fan_on>>

\* _single_sync: the corrective move
SS_Move ==
    /\ \/ pc = "ss_move"
       \/ pc = "ss_entry" /\ ~check_axis /\ ax[cur_m].dir_name # "unknown"
    /\ LET f == [ax EXCEPT ![cur_m].move_msteps = SingleSyncSteps(cur_m)]
       IN  /\ ax' = single_move(f, cur_m, 1)
           /\ MoveDone(f, cur_m, 1)
    /\ pc' = "ss_meas"
    /\ UNCHANGED <<config_vars, calc_vars, wait_vars, axes, force_run, raw_deviation, started,
                   finish_calls, main_enabled, fan_on, ret, cur_m, cur_s, order,
                   idx, check_axis, force_exit, err, stats, done_reports,
                   premove_below>>

\* _single_sync: the measurement after the move; an improvement is adopted
SS_Measure ==
    /\ pc = "ss_meas"
    /\ MeasureAllowed
    /\ \/ /\ MeasureTimeout(cur_m)
          /\ UNCHANGED ax
       \/ \E out \in Outcomes :
          /\ MeasureDone(cur_m, out)
          /\ PremoveNext(cur_m, out, FALSE)
          /\ IF Magnitude(out) > ax[cur_m].magnitude
             THEN /\ ax' = LogAppend(
                            [ax EXCEPT ![cur_m].new_magnitude = Magnitude(out)], cur_m)
                  /\ pc' = "ss_revert"
             ELSE /\ ax' = LogAppend(
                            [ax EXCEPT ![cur_m].new_magnitude = Magnitude(out),
                                       ![cur_m].magnitude = Magnitude(out)], cur_m)
                  /\ pc' = LoopPc
          /\ UNCHANGED <<ret, cur_m, cur_s, order, idx, check_axis, force_exit,
                         err, stats, done_reports, moved, track>>
    /\ UNCHANGED <<config_vars, calc_vars, wait_vars, axes, force_run, started, finish_calls, fan_on>>

\* "if m.retry_tolerance and m.magnitude > m.retry_tolerance"
RetryWanted(f, m) == retry_tolerance[m] # 0 /\ f[m].magnitude > retry_tolerance[m]

\* a slip: one retry more than configured
RetriesExhausted_Late(f, m) == f[m].curr_retry > max_retries[m] + 1

\* "if m.curr_retry > m.max_retries", after the increment
RetriesExhausted(f, m) == f[m].curr_retry > max_retries[m]

\* a slip: the overshoot magnitude is adopted, as after a good move
FinishAtLocalMinimum_Adopt(f, m) ==
    [f EXCEPT ![m].is_finished = TRUE, ![m].magnitude = f[m].new_magnitude]

\* "m.is_finished = True; return" after the revert: the magnitude is kept
FinishAtLocalMinimum(f, m) == [f EXCEPT ![m].is_finished = TRUE]

\* _single_sync after an overshoot: revert, then retry, fail or finish
SS_Revert ==
    /\ pc = "ss_revert"
    /\ MoveDone(ax, cur_m, -1)
    /\ LET f == single_move(ax, cur_m, -1)
           g == [f EXCEPT ![cur_m].curr_retry = @ + 1]
       IN  IF RetryWanted(f, cur_m)
           THEN IF RetriesExhausted(g, cur_m)
                THEN TooManyRetries(g, cur_m)
                ELSE /\ ax' = handle_state_retry(g, cur_m)
                     /\ pc' = LoopPc
                     /\ UNCHANGED <<finish_calls, main_enabled, fan_on, ret, cur_m,
                                    cur_s, order, idx, check_axis, force_exit, err,
                                    stats, done_reports>>
           ELSE /\ ax' = FinishAtLocalMinimum(f, cur_m)
                /\ pc' = LoopPc
                /\ UNCHANGED <<finish_calls, main_enabled, fan_on, ret, cur_m,
                               cur_s, order, idx, check_axis, force_exit, err,
                               stats, done_reports>>
    /\ UNCHANGED <<config_vars, calc_vars, wait_vars, axes, force_run, raw_deviation, started,
                   premove_below>>


\* --------------------------------------------------------------- _run_sync
\* the else branch of "Check if all axes in tolerance"
RunNeeded ==
    /\ pc = "check_tol"
    /\ \/ force_run
       \/ \E i \in 1..Len(axes) :
             ~(ax[axes[i]].init_magnitude < retry_tolerance[axes[i]])

\* _run_sync, sequential: "for axis in self.axes"
RunSequential ==
    /\ RunNeeded
    /\ Policy = "seq"
    /\ order' = axes
    /\ idx' = 1
    /\ pc' = "seq_axis"
    /\ force_run' = FALSE
    /\ op' = NoOp
    /\ UNCHANGED <<config_vars, calc_vars, wait_vars, axes, ax, raw_deviation, started,
                   finish_calls, main_enabled, fan_on, ret, cur_m, cur_s,
                   check_axis, force_exit, err, stats, done_reports, moved, track,
                   premove_below>>

\* sequential: the next axis and its m.detect_move_dir()
SeqAxis ==
    /\ pc = "seq_axis"
    /\ IF idx > Len(order)
       THEN /\ pc' = "done"
            /\ idx' = 1
            /\ UNCHANGED <<cur_m, ret>>
       ELSE /\ cur_m' = order[idx]
            /\ pc' = "dmd"
            /\ ret' = "seq_loop"
            /\ idx' = idx
    /\ op' = NoOp
    /\ UNCHANGED <<config_vars, calc_vars, wait_vars, axes, force_run, ax, raw_deviation, started,
                   finish_calls, main_enabled, fan_on, cur_s, order,
                   check_axis, force_exit, err, stats, done_reports, moved, track,
                   premove_below>>

\* a slip: the next axis is taken after every _single_sync, finished or not
SeqLoop_Interleave ==
    /\ pc = "seq_loop"
    /\ IF AllFinished(ax)
       THEN pc' = "done" /\ idx' = 1
       ELSE pc' = "seq_axis" /\ idx' = (idx % Len(order)) + 1
    /\ op' = NoOp
    /\ UNCHANGED <<config_vars, calc_vars, wait_vars, axes, force_run, ax,
                   raw_deviation, started, finish_calls, main_enabled, fan_on,
                   ret, cur_m, cur_s, order, check_axis, force_exit, err, stats,
                   done_reports, moved, track, premove_below>>

\* sequential: "while True" around _single_sync(m)
SeqLoop ==
    /\ pc = "seq_loop"
    /\ IF ax[cur_m].is_finished
       THEN IF AllFinished(ax)
            THEN pc' = "done" /\ idx' = 1
            ELSE pc' = "seq_axis" /\ idx' = idx + 1
       ELSE pc' = "ss_entry" /\ idx' = idx
    /\ op' = NoOp
    /\ UNCHANGED <<config_vars, calc_vars, wait_vars, axes, force_run, ax, raw_deviation, started,
                   finish_calls, main_enabled, fan_on, ret, cur_m, cur_s, order,
                   check_axis, force_exit, err, stats, done_reports, moved, track,
                   premove_below>>

\* sorted(self.motion.values(), key=init_magnitude)[-1]: the sort is stable,
\* so on equal magnitudes the later axis of self.motion is the maximum
MaxAxis == IF ax["x"].init_magnitude > ax["y"].init_magnitude THEN "x" ELSE "y"
MinAxis == IF MaxAxis = "x" THEN "y" ELSE "x"

Reverse(q) == [i \in 1..Len(q) |-> q[Len(q) + 1 - i]]

\* itertools.cycle: the position after idx
CycleNext(i) == IF i < Len(order) THEN i + 1 ELSE 1

\* abs(abs(m.check_msteps) - abs(s.check_msteps))
StepsDiff(f, m, s) == Abs(Abs(f[m].check_msteps) - Abs(f[s].check_msteps))

\* "m.check_msteps, s.check_msteps = 0, 0"
ResetCheck(f, m, s) == [f EXCEPT ![m].check_msteps = 0, ![s].check_msteps = 0]

\* ------------------------------------------------------------ _axes_level
\* the top of the "while True" of _axes_level: refresh s, detect, or move
AlLoopPc(f, m, s) ==
    IF StepsDiff(f, m, s) >= axes_steps_diff THEN "al_refresh"
    ELSE IF f[m].dir_name = "unknown" THEN "dmd"
    ELSE "al_move"

\* a slip: a gap that has closed does not end the leveling
LevelExit_OnlyBelow(f, m, s, forced) ==
    \/ f[m].new_magnitude < f[s].magnitude
    \/ forced

\* the exit test at the bottom of the loop, after m.magnitude = m.new_magnitude
LevelExit(f, m, s, forced) ==
    \/ f[m].new_magnitude - f[s].magnitude < AXES_LEVEL_DELTA
    \/ f[m].new_magnitude < f[s].magnitude
    \/ forced

\* a slip: only a negative delta returns at once
LevelSkipped_Negative(f, m, s) == f[m].init_magnitude - f[s].init_magnitude < 0

\* _axes_level: "if delta <= AXES_LEVEL_DELTA: return"
LevelSkipped(f, m, s) ==
    f[m].init_magnitude - f[s].init_magnitude <= AXES_LEVEL_DELTA

\* _run_sync, alternately: the axes by initial magnitude, then _axes_level
RunAlternately ==
    /\ RunNeeded
    /\ Policy = "alt"
    /\ cur_m' = MaxAxis
    /\ cur_s' = MinAxis
    /\ order' = IF MaxAxis = axes[1] THEN Reverse(axes) ELSE axes
    /\ idx' = 1
    /\ force_exit' = FALSE
    /\ ret' = "al_move"
    /\ pc' = IF LevelSkipped(ax, MaxAxis, MinAxis)
             THEN "alt_loop"
             ELSE AlLoopPc(ax, MaxAxis, MinAxis)
    /\ force_run' = FALSE
    /\ op' = NoOp
    /\ UNCHANGED <<config_vars, calc_vars, wait_vars, axes, ax, raw_deviation, started, finish_calls,
                   main_enabled, fan_on, check_axis, err, stats, done_reports,
                   moved, track, premove_below>>

\* _axes_level: the second axis is measured again, the step counters restart
AL_Refresh ==
    /\ pc = "al_refresh"
    /\ MeasureAllowed
    /\ \/ /\ MeasureTimeout(cur_s)
          /\ UNCHANGED ax
       \/ \E out \in Outcomes :
          /\ MeasureDone(cur_s, out)
          /\ PremoveNext(cur_s, out, FALSE)
          /\ ax' = ResetCheck(
                     LogAppend([ax EXCEPT ![cur_s].new_magnitude = Magnitude(out),
                                          ![cur_s].magnitude = Magnitude(out)],
                               cur_s), cur_m, cur_s)
          /\ pc' = IF ax[cur_m].dir_name = "unknown" THEN "dmd" ELSE "al_move"
          /\ UNCHANGED <<ret, cur_m, cur_s, order, idx, check_axis, force_exit,
                         err, stats, done_reports, moved, track>>
    /\ UNCHANGED <<config_vars, calc_vars, wait_vars, axes, force_run, started, finish_calls, fan_on>>

\* a slip: the step solved for the main axis is issued to the secondary one
AL_Move_Secondary ==
    /\ pc = "al_move"
    /\ LET f == [ax EXCEPT ![cur_s].move_msteps = AxesLevelSteps(cur_m, cur_s)]
       IN  /\ ax' = single_move(f, cur_s, 1)
           /\ MoveDone(f, cur_s, 1)
    /\ pc' = "al_meas"
    /\ UNCHANGED <<config_vars, calc_vars, wait_vars, axes, force_run,
                   raw_deviation, started, finish_calls, main_enabled, fan_on,
                   ret, cur_m, cur_s, order, idx, check_axis, force_exit, err,
                   stats, done_reports, premove_below>>

\* _axes_level: the leveling move
AL_Move ==
    /\ pc = "al_move"
    /\ LET f == [ax EXCEPT ![cur_m].move_msteps = AxesLevelSteps(cur_m, cur_s)]
       IN  /\ ax' = single_move(f, cur_m, 1)
           /\ MoveDone(f, cur_m, 1)
    /\ pc' = "al_meas"
    /\ UNCHANGED <<config_vars, calc_vars, wait_vars, axes, force_run, raw_deviation, started,
                   finish_calls, main_enabled, fan_on, ret, cur_m, cur_s, order,
                   idx, check_axis, force_exit, err, stats, done_reports,
                   premove_below>>

\* _axes_level: the measurement after the move and, without overshoot, the
\* bottom of the loop
AL_Measure ==
    /\ pc = "al_meas"
    /\ MeasureAllowed
    /\ \/ /\ MeasureTimeout(cur_m)
          /\ UNCHANGED ax
       \/ \E out \in Outcomes :
          /\ MeasureDone(cur_m, out)
          /\ PremoveNext(cur_m, out, FALSE)
          /\ IF Magnitude(out) > ax[cur_m].magnitude
             THEN /\ ax' = LogAppend(
                            [ax EXCEPT ![cur_m].new_magnitude = Magnitude(out)], cur_m)
                  /\ pc' = "al_revert"
             ELSE LET f == LogAppend(
                            [ax EXCEPT ![cur_m].new_magnitude = Magnitude(out),
                                       ![cur_m].magnitude = Magnitude(out)], cur_m)
                  IN  /\ ax' = f
                      /\ pc' = IF LevelExit(f, cur_m, cur_s, force_exit)
                               THEN "alt_loop"
                               ELSE AlLoopPc(f, cur_m, cur_s)
          /\ UNCHANGED <<ret, cur_m, cur_s, order, idx, check_axis, force_exit,
                         err, stats, done_reports, moved, track>>
    /\ UNCHANGED <<config_vars, calc_vars, wait_vars, axes, force_run, started, finish_calls, fan_on>>

\* _axes_level after an overshoot: revert, then retry, fail or forced exit
AL_Revert ==
    /\ pc = "al_revert"
    /\ MoveDone(ax, cur_m, -1)
    /\ LET f == single_move(ax, cur_m, -1)
           g == [f EXCEPT ![cur_m].curr_retry = @ + 1]
           r == handle_state_retry(g, cur_m)
       IN  IF RetryWanted(f, cur_m)
           THEN IF RetriesExhausted(g, cur_m)
                THEN /\ TooManyRetries(g, cur_m)
                     /\ UNCHANGED force_exit
                ELSE /\ ax' = r
                     /\ pc' = AlLoopPc(r, cur_m, cur_s)
                     /\ UNCHANGED <<finish_calls, main_enabled, fan_on, ret, cur_m,
                                    cur_s, order, idx, check_axis, force_exit, err,
                                    stats, done_reports>>
           ELSE /\ ax' = [f EXCEPT ![cur_m].magnitude = f[cur_m].new_magnitude]
                /\ force_exit' = TRUE
                /\ pc' = "alt_loop"
                /\ UNCHANGED <<finish_calls, main_enabled, fan_on, ret, cur_m,
                               cur_s, order, idx, check_axis, err, stats,
                               done_reports>>
    /\ UNCHANGED <<config_vars, calc_vars, wait_vars, axes, force_run, raw_deviation, started,
                   premove_below>>

\* a slip: the cycle only tests whether every axis is finished, a finished
\* axis is synchronized on
AltLoop_NoSkip ==
    /\ pc = "alt_loop"
    /\ IF AllFinished(ax)
       THEN pc' = "done" /\ idx' = 1 /\ cur_m' = cur_m
       ELSE pc' = "ss_entry" /\ idx' = CycleNext(idx) /\ cur_m' = order[idx]
    /\ op' = NoOp
    /\ UNCHANGED <<config_vars, calc_vars, wait_vars, axes, force_run, ax,
                   raw_deviation, started, finish_calls, main_enabled, fan_on,
                   ret, cur_s, order, check_axis, force_exit, err, stats,
                   done_reports, moved, track, premove_below>>

\* a slip: the cycle is left at the first finished axis it visits
AltLoop_ExitOnFinished ==
    /\ pc = "alt_loop"
    /\ IF ax[order[idx]].is_finished
       THEN pc' = "done" /\ idx' = 1 /\ cur_m' = cur_m
       ELSE pc' = "ss_entry" /\ idx' = CycleNext(idx) /\ cur_m' = order[idx]
    /\ op' = NoOp
    /\ UNCHANGED <<config_vars, calc_vars, wait_vars, axes, force_run, ax,
                   raw_deviation, started, finish_calls, main_enabled, fan_on,
                   ret, cur_s, order, check_axis, force_exit, err, stats,
                   done_reports, moved, track, premove_below>>

\* alternately: "for axis in itertools.cycle(axes)"
AltLoop ==
    /\ pc = "alt_loop"
    /\ IF ax[order[idx]].is_finished
       THEN IF AllFinished(ax)
            THEN pc' = "done" /\ idx' = 1 /\ cur_m' = cur_m
            ELSE pc' = "alt_loop" /\ idx' = CycleNext(idx) /\ cur_m' = cur_m
       ELSE pc' = "ss_entry" /\ idx' = CycleNext(idx) /\ cur_m' = order[idx]
    /\ op' = NoOp
    /\ UNCHANGED <<config_vars, calc_vars, wait_vars, axes, force_run, ax, raw_deviation, started,
                   finish_calls, main_enabled, fan_on, ret, cur_s, order,
                   check_axis, force_exit, err, stats, done_reports, moved, track,
                   premove_below>>

\* _run_sync, synchronous: max_ax.detect_move_dir() before the loop
RunSynchronous ==
    /\ RunNeeded
    /\ Policy = "sync"
    /\ cur_m' = MaxAxis
    /\ order' = axes
    /\ idx' = 1
    /\ check_axis' = FALSE
    /\ pc' = "dmd"
    /\ ret' = "sync_loop"
    /\ force_run' = FALSE
    /\ op' = NoOp
    /\ UNCHANGED <<config_vars, calc_vars, wait_vars, axes, ax, raw_deviation, started, finish_calls,
                   main_enabled, fan_on, cur_s, force_exit, err, stats,
                   done_reports, moved, track, premove_below>>

\* a slip: an axis is also held back by a neighbour of the same magnitude
HeldBack_OnEqual(f, m, s) == f[m].magnitude <= f[s].magnitude /\ ~f[s].is_finished

\* a slip: no axis is ever held back
HeldBack_Never(f, m, s) == FALSE

\* synchronous: "if m.magnitude < s.magnitude and not s.is_finished"
HeldBack(f, m, s) == f[m].magnitude < f[s].magnitude /\ ~f[s].is_finished

\* synchronous: one turn of the "while True"
SyncLoop ==
    /\ pc = "sync_loop"
    /\ LET m == order[idx]
           s == order[CycleNext(idx)]
       IN  /\ idx' = IF ax[m].is_finished /\ AllFinished(ax)
                     THEN 1 ELSE CycleNext(idx)
           /\ IF ax[m].is_finished
              THEN /\ pc' = IF AllFinished(ax) THEN "done" ELSE "sync_loop"
                   /\ UNCHANGED <<ax, cur_m, cur_s, check_axis>>
              ELSE IF HeldBack(ax, m, s)
              THEN IF StepsDiff(ax, m, s) >= axes_steps_diff
                   THEN /\ check_axis' = TRUE
                        /\ ax' = ResetCheck(ax, m, s)
                        /\ cur_m' = m
                        /\ cur_s' = s
                        /\ pc' = "ss_entry"
                   ELSE /\ pc' = "sync_loop"
                        /\ UNCHANGED <<ax, cur_m, cur_s, check_axis>>
              ELSE /\ cur_m' = m
                   /\ cur_s' = s
                   /\ pc' = "ss_entry"
                   /\ UNCHANGED <<ax, check_axis>>
    /\ op' = NoOp
    /\ UNCHANGED <<config_vars, calc_vars, wait_vars, axes, force_run, raw_deviation, started,
                   finish_calls, main_enabled, fan_on, ret, order, force_exit, err,
                   stats, done_reports, moved, track, premove_below>>

\* ------------------------------------------------ the end of cmd_SYNC_MOTORS
\* handle_state(axis, 'done') for the next axis of self.axes
DoneAxis ==
    /\ pc = "done"
    /\ LET a == axes[idx]
       IN  /\ fan_on' = [fan_on EXCEPT ![a] = TRUE]
           /\ finish_calls' = DoneFinish(a)
           /\ main_enabled' = [main_enabled EXCEPT ![a] = TRUE]
           /\ done_reports' = done_reports \cup {a}
    /\ idx' = IF idx < Len(axes) THEN idx + 1 ELSE 1
    /\ pc' = IF idx < Len(axes) THEN "done" ELSE "final"
    /\ op' = NoOp
    /\ UNCHANGED <<config_vars, calc_vars, wait_vars, axes, force_run, ax, raw_deviation, started, ret,
                   cur_m, cur_s, order, check_axis, force_exit, err, stats,
                   moved, track, premove_below>>

\* write_log() and the return of the command
Final ==
    /\ pc = "final"
    /\ stats' = stats \cup StatRecords(ax, {a \in AxisNames : InRun(a)}, TRUE)
    /\ pc' = "returned"
    /\ op' = NoOp
    /\ UNCHANGED <<config_vars, calc_vars, wait_vars, axes, force_run, ax, raw_deviation, started,
                   finish_calls, main_enabled, fan_on, ret, cur_m, cur_s, order,
                   idx, check_axis, force_exit, err, done_reports, moved, track,
                   premove_below>>

\* ----------------------------------------------------------- _wait_samples
\* "lim = self.reactor.monotonic() + 5.", in units of 10 ms
WAIT_DEADLINE == 500
\* "self.reactor.pause(now + 0.010)", in units of 10 ms
POLL_PAUSE == 1
\* the clock values the model follows a wait for, past its deadline
WaitSlack == 3
\* samples a wait of the model may receive
MaxSamples == 2
\* the latest timestamp a sample of the model carries
MaxStamp == 3
\* the lateness of a wake-up of the model, in units of 10 ms
MaxLate == 1

\* _get_accel_samples / _get_encoder_samples enter _wait_samples after
\* update_end_time set the window end; the buffer was flushed by flush_data
InitWait ==
    /\ chip \in {"accelerometer", "encoder"}
    /\ sync_method = "sequential"
    /\ max_step_size = 1
    /\ retry_tolerance = [a \in AxisNames |-> 0]
    /\ max_retries = [a \in AxisNames |-> 0]
    /\ counting = TRUE
    /\ enc_values = MagValues \cup EncoderNegatives
    /\ measure_cap = MaxMeasures
    /\ ControllerIdle
    /\ CalcOff
    /\ w_pc = "top"
    /\ w_clock = 0
    /\ w_now = 0
    /\ w_lim = WAIT_DEADLINE
    /\ w_samples = <<>>
    /\ w_end \in 1..(MaxStamp - 1)
    /\ helper = NoClient

LastStamp == IF w_samples = <<>> THEN 0 ELSE w_samples[Len(w_samples)]

\* "now = self.reactor.monotonic()" and the start of the pause
WaitPause ==
    /\ w_pc = "top"
    /\ w_clock <= WAIT_DEADLINE + WaitSlack
    /\ w_now' = w_clock
    /\ w_pc' = "paused"
    /\ UNCHANGED <<config_vars, calc_vars, axes, force_run, ax, raw_deviation, started,
                   finish_calls, main_enabled, fan_on, pc, ret, cur_m, cur_s,
                   order, idx, check_axis, force_exit, err, stats, done_reports,
                   op, moved, track, premove_below, w_clock, w_lim, w_samples, w_end, helper>>

\* the sensor delivers a batch while the wait is paused
SampleArrives ==
    /\ w_pc = "paused"
    /\ Len(w_samples) < MaxSamples
    /\ \E t \in (LastStamp + 1)..MaxStamp : w_samples' = Append(w_samples, t)
    /\ UNCHANGED <<config_vars, calc_vars, axes, force_run, ax, raw_deviation, started,
                   finish_calls, main_enabled, fan_on, pc, ret, cur_m, cur_s,
                   order, idx, check_axis, force_exit, err, stats, done_reports,
                   op, moved, track, premove_below, w_pc, w_clock, w_now, w_lim, w_end, helper>>

\* the pause ends and the buffer is tested
WaitOutcome ==
    IF w_samples # <<>> /\ w_end # 0
    THEN IF LastStamp > w_end THEN "returned"
         ELSE IF w_now > w_lim THEN "raised"
         ELSE "top"
    ELSE "top"

WaitWake ==
    /\ w_pc = "paused"
    /\ \E late \in 0..MaxLate : w_clock' = w_now + POLL_PAUSE + late
    /\ w_pc' = WaitOutcome
    /\ UNCHANGED <<config_vars, calc_vars, axes, force_run, ax, raw_deviation, started,
                   finish_calls, main_enabled, fan_on, pc, ret, cur_m, cur_s,
                   order, idx, check_axis, force_exit, err, stats, done_reports,
                   op, moved, track, premove_below, w_now, w_lim, w_samples, w_end, helper>>

NextWait ==
    \/ WaitPause
    \/ SampleArrives
    \/ WaitWake

SpecWait == InitWait /\ [][NextWait]_vars

\* ------------------------------------------------- the sample filters
\* the run state of the controller, which no pure function touches
ctl_vars == <<axes, force_run, ax, raw_deviation, started, finish_calls,
              main_enabled, fan_on, pc, ret, cur_m, cur_s, order, idx,
              check_axis, force_exit, err, stats, done_reports, op, moved, track,
              premove_below>>

\* a printer on which no command and no wait is running
NoCommand ==
    /\ chip = "accelerometer"
    /\ sync_method = "sequential"
    /\ max_step_size = 1
    /\ retry_tolerance = [a \in AxisNames |-> 0]
    /\ max_retries = [a \in AxisNames |-> 0]
    /\ counting = TRUE
    /\ enc_values = MagValues \cup EncoderNegatives
    /\ measure_cap = MaxMeasures
    /\ ControllerIdle
    /\ WaitOff

\* samples[lo:hi] of Python as a sequence, lo and hi 0-based, lo <= hi <= len
Slice(q, lo, hi) == [k \in 1..(hi - lo) |-> q[lo + k]]

RECURSIVE SumSeq(_)
SumSeq(q) == IF q = <<>> THEN 0 ELSE q[1] + SumSeq(Tail(q))

\* q without its element at position i
RemoveAt(q, i) == [k \in 1..(Len(q) - 1) |-> IF k < i THEN q[k] ELSE q[k + 1]]

\* a position of a largest element of a non-empty q
MaxPos(q) == CHOOSE i \in 1..Len(q) : \A k \in 1..Len(q) : q[k] <= q[i]

\* np.sort(q)[-c:] summed: the sum of the c largest elements (all when fewer)
RECURSIVE TopSum(_, _)
TopSum(q, c) ==
    IF c = 0 \/ q = <<>> THEN 0
    ELSE q[MaxPos(q)] + TopSum(RemoveAt(q, MaxPos(q)), c - 1)

\* np.median of a window of odd length: the element with as many elements
\* not above it as not below it
Median(q) ==
    LET half == Len(q) \div 2
        v == CHOOSE x \in {q[k] : k \in 1..Len(q)} :
                 /\ Cardinality({k \in 1..Len(q) : q[k] < x}) <= half
                 /\ Cardinality({k \in 1..Len(q) : q[k] > x}) <= half
    IN  v

\* "median_size", default
MEDIAN_SIZE == 3

\* the windows of the median filter: "samples[i - w:i + w + 1] for i in
\* range(w, len(samples) - w)"
MedianWindows(samples, w) ==
    [j \in 1..Max2(Len(samples) - 2 * w, 0) |-> Slice(samples, j - 1, j + 2 * w)]

\* chip_filter of 'median': np.median(windows, axis=1); without a window
\* np.median([], axis=1) raises
median_filter(samples, w) ==
    LET wins == MedianWindows(samples, w)
    IN  IF wins = <<>>
        THEN [raised |-> TRUE, out |-> <<>>]
        ELSE [raised |-> FALSE, out |-> [j \in 1..Len(wins) |-> Median(wins[j])]]

\* --------------------------------------------------------- KalmanLiteFilter
\* a slip: the state of the last call is kept
flush_data_Keep(f) == f

\* flush_data
flush_data(f) == [f EXCEPT !.x = f.st_x, !.P = f.st_p]

\* predict
predict(f) == [f EXCEPT !.x = f.A * f.x, !.P = f.A * f.P * f.A + f.Q]

\* update: "S = H * P * H + R"
Innovation(f) == f.H * f.P * f.H + f.R

\* update: "K = self.P * self.H * S"
KalmanGain(f) == f.P * f.H * Innovation(f)

\* update(z), self.I = 1: the filter after it; the estimate x is returned
update(f, z) ==
    LET p == predict(f)
        y == z - p.H * p.x
        K == KalmanGain(p)
    IN  [p EXCEPT !.x = p.x + K * y, !.P = (1 - K * p.H) * p.P]

\* "[self.update(z) for z in samples]": the filter after it and the estimates
RECURSIVE Updates(_, _)
Updates(f, samples) ==
    IF samples = <<>> THEN [filter |-> f, out |-> <<>>]
    ELSE LET g == update(f, samples[1])
             rest == Updates(g, Tail(samples))
         IN  [filter |-> rest.filter, out |-> <<g.x>> \o rest.out]

\* process_samples(samples)
process_samples(f, samples) == Updates(flush_data(f), samples)

\* kalman_coeffs 1, 1, 1, 0, 0, 0: every gain is 1, the estimate is the sample
UnitGainKalman == KalmanLiteFilter(1, 1, 1, 0, 0, 0)

\* ------------------------------------------- AccelHelper._calc_magnitude
\* the longest burst of the model
MaxBurst == 10
\* the norms np.linalg.norm may give the samples of a burst of the model
NormValues == {0, 1}
\* a burst of ten norms with distinct values
ExampleBurst == <<10, 50, 5, 80, 3, 100, 1, 2, 0, 70>>

Bursts == UNION {[1..n -> NormValues] : n \in 1..MaxBurst} \cup {ExampleBurst}

\* a slip: the static zone starts at the first sample
StaticZone_FromStart(n) == [lo |-> 0, hi |-> n \div 3]

\* "static_zone = range(vects_len // 5, vects_len // 3)", 0-based, end excluded
StaticZone(n) == [lo |-> n \div 5, hi |-> n \div 3]

\* "np.sort(magnitudes)[-5:]": how many elements it holds
TOP_COUNT == 5

NoMagnitude ==
    [kind |-> "raised", static_sum |-> 0, static_n |-> 0, top_sum |-> 0,
     top_n |-> 0, hundredths |-> 0]

\* _calc_magnitude on the norms of a burst and the filter's answer: it raises
\* when the filter raised, when the zone indexes past the filtered array
\* (IndexError) and when the zone is empty (the mean is nan, int(nan) raises);
\* else np.around(mean of the largest - static, 2), kept in hundredths
calc_magnitude(norms, filtered) ==
    LET zone == StaticZone(Len(norms))
        mags == filtered.out
        static_n == zone.hi - zone.lo
        top_n == Min2(TOP_COUNT, Len(mags))
    IN  IF filtered.raised \/ static_n <= 0 \/ zone.hi > Len(mags)
        THEN NoMagnitude
        ELSE LET static_sum == SumSeq(Slice(mags, zone.lo, zone.hi))
                 top_sum == TopSum(mags, TOP_COUNT)
             IN  [kind |-> "value", static_sum |-> static_sum,
                  static_n |-> static_n, top_sum |-> top_sum, top_n |-> top_n,
                  hundredths |->
                      RoundDiv(100 * (top_sum * static_n - static_sum * top_n),
                               top_n * static_n)]

\* self.chip_filter(magnitudes) for the configured filter
chip_filter(name, f, magnitudes) ==
    IF name = "median" THEN median_filter(magnitudes, MEDIAN_SIZE)
    ELSE [raised |-> FALSE, out |-> process_samples(f, magnitudes).out]

\* a burst was collected, the axis has the median filter or the Kalman filter
\* of unit gain
InitExtract ==
    /\ NoCommand
    /\ fn_pc = "ready"
    /\ fn_args \in [vects : Bursts, filter : {"median", "kalman"}]
    /\ fn_result = <<>>
    /\ kf = UnitGainKalman
    /\ kf_calls = <<>>

CalcMagnitude ==
    /\ fn_pc = "ready"
    /\ fn_result' = calc_magnitude(fn_args.vects,
                                   chip_filter(fn_args.filter, kf, fn_args.vects))
    /\ kf' = IF fn_args.filter = "kalman"
             THEN process_samples(kf, fn_args.vects).filter
             ELSE kf
    /\ fn_pc' = "done"
    /\ UNCHANGED <<config_vars, wait_vars, ctl_vars, fn_args, kf_calls>>

NextExtract == CalcMagnitude

SpecExtract == InitExtract /\ [][NextExtract]_vars

\* ----------------------------------------------------- the median filter
\* the longest input of the model
MaxFilterInput == 8
\* the values of the input of the model
FilterValues == {0, 1}
\* the configured median_size values of the model (3, 5, 7, 9 are allowed)
MedianSizes == {3, 5}

\* the median filter is given an input longer than its median_size
InitMedian ==
    /\ NoCommand
    /\ fn_pc = "ready"
    /\ \E w \in MedianSizes : \E n \in (w + 1)..MaxFilterInput :
          fn_args \in [samples : [1..n -> FilterValues], w : {w}]
    /\ fn_result = <<>>
    /\ kf = UnitGainKalman
    /\ kf_calls = <<>>

ApplyMedian ==
    /\ fn_pc = "ready"
    /\ fn_result' = median_filter(fn_args.samples, fn_args.w)
    /\ fn_pc' = "done"
    /\ UNCHANGED <<config_vars, wait_vars, ctl_vars, fn_args, kf, kf_calls>>

NextMedian == ApplyMedian

SpecMedian == InitMedian /\ [][NextMedian]_vars

\* ------------------------------------------ KalmanLiteFilter.process_samples
\* process_samples calls the model follows on one filter object
MaxCalls == 3
\* the longest sample sequence of a call of the model
MaxKalmanInput == 2
\* the sample values of the model
KalmanValues == {0, 1}
\* the values of Q, R, P0 and x0 of the model; A = H = 1
KalmanCoeffs == {0, 1}

KalmanInputs == UNION {[1..n -> KalmanValues] : n \in 1..MaxKalmanInput}

\* the steps of "[self.update(z) for z in samples]": per sample the predicted
\* estimate and covariance, the gain, and the estimate and covariance after it
RECURSIVE UpdateTrace(_, _)
UpdateTrace(f, samples) ==
    IF samples = <<>> THEN <<>>
    ELSE LET p == predict(f)
             g == update(f, samples[1])
         IN  <<[z |-> samples[1], xp |-> p.x, Pp |-> p.P, K |-> KalmanGain(p),
                x |-> g.x, P |-> g.P]>> \o UpdateTrace(g, Tail(samples))

\* a filter object after construction, not yet called
InitKalman ==
    /\ NoCommand
    /\ fn_pc = "ready"
    /\ fn_args = <<>>
    /\ fn_result = <<>>
    /\ \E Q \in KalmanCoeffs, R \in KalmanCoeffs, P0 \in KalmanCoeffs,
          x0 \in KalmanCoeffs : kf = KalmanLiteFilter(1, 1, Q, R, P0, x0)
    /\ kf_calls = <<>>

\* one call of process_samples on the object; fn_result keeps its steps
ProcessSamples ==
    /\ fn_pc = "ready"
    /\ Len(kf_calls) < MaxCalls
    /\ \E samples \in KalmanInputs :
          LET r == process_samples(kf, samples)
          IN  /\ kf' = r.filter
              /\ kf_calls' = Append(kf_calls, [samples |-> samples, out |-> r.out])
              /\ fn_args' = samples
              /\ fn_result' = UpdateTrace(flush_data(kf), samples)
    /\ UNCHANGED <<config_vars, wait_vars, ctl_vars, fn_pc>>

NextKalman == ProcessSamples

SpecKalman == InitKalman /\ [][NextKalman]_vars

\* ------------------------------------------------------ the step models
\* the largest step value of the calibration domain of the model
MaxX == 4

\* the numbers of the step models are fractions n/d in lowest terms, d > 0
RECURSIVE GCD(_, _)
GCD(a, b) == IF b = 0 THEN a ELSE GCD(b, a % b)

Rat(n, d) ==
    LET g == GCD(Abs(n), Abs(d))
        sign == IF (n < 0) # (d < 0) THEN -1 ELSE 1
    IN  [n |-> sign * (Abs(n) \div g), d |-> Abs(d) \div g]

RInt(i) == [n |-> i, d |-> 1]
RAdd(p, q) == Rat(p.n * q.d + q.n * p.d, p.d * q.d)
RSub(p, q) == Rat(p.n * q.d - q.n * p.d, p.d * q.d)
RMul(p, q) == Rat(p.n * q.n, p.d * q.d)
RDiv(p, q) == Rat(p.n * q.d, p.d * q.n)
RLess(p, q) == p.n * q.d < q.n * p.d

RECURSIVE Pow(_, _)
Pow(x, e) == IF e = 0 THEN 1 ELSE x * Pow(x, e - 1)

\* the e-th root of a number that has an exact one
IRoot(v, e) == CHOOSE r \in 0..v : Pow(r, e) = v
RRoot(q, e) == Rat(IRoot(q.n, e), IRoot(q.d, e))

\* the base-2 logarithm of a power of two
ILog2(v) == CHOOSE e \in 0..v : Pow(2, e) = v

\* the kinds "model" may name, with the coefficients of the model; the
\* exponential kind's b is k * ln 2 and its coefficient is kept as k
ModelKinds == {"linear", "quadratic", "power", "root", "hyperbolic", "exponential"}

ModelCoeffs(kind) ==
    CASE kind = "linear" -> {<<a, b>> : a \in {1, 2}, b \in {-4, 0, 1}}
      [] kind = "quadratic" ->
            {<<a, b, c>> : a \in {-1, 1, 2}, b \in {-4, 0, 1}, c \in {0, 3}}
      [] kind = "power" -> {<<a, b>> : a \in {1, 2}, b \in {1, 2}}
      [] kind = "root" -> {<<a, b>> : a \in {1, 2}, b \in {-4, 0, 1}}
      [] kind = "hyperbolic" -> {<<a, b>> : a \in {1, 2}, b \in {-4, 0, 1}}
      [] OTHER -> {<<a, k, c>> : a \in {1, 2}, k \in {1, 2}, c \in {0, 3}}

\* the step values of the domain; the root kind is followed on the squares
ModelDomain(kind) ==
    IF kind = "root" THEN {i * i : i \in 1..MaxX} ELSE 1..MaxX

\* MotorsSyncCalibrate.<kind>_model(x, *coeffs)
ModelForward(kind, c, x) ==
    CASE kind = "linear" -> RInt(c[1] * x + c[2])
      [] kind = "quadratic" -> RInt(c[1] * x * x + c[2] * x + c[3])
      [] kind = "power" -> RInt(c[1] * Pow(x, c[2]))
      [] kind = "root" -> RInt(c[1] * IRoot(x, 2) + c[2])
      [] kind = "hyperbolic" -> RAdd(Rat(c[1], x), RInt(c[2]))
      [] OTHER -> RInt(c[1] * Pow(2, c[2] * x) + c[3])

\* a slip: the smallest root is taken
MaxRoot_Min(p, q) == IF RLess(p, q) THEN p ELSE q

\* "max(np.roots(...).real)" of two real roots
MaxRoot(p, q) == IF RLess(p, q) THEN q ELSE p

\* MATH_MODELS["polynomial"] on [a, b - fx]: the root of a*x + (b - fx)
SolveLinear(c, fx) == RDiv(RSub(fx, RInt(c[2])), RInt(c[1]))

\* MATH_MODELS["polynomial"] on [a, b, c - fx]: the largest of the roots
\* (-b +- sqrt(b^2 - 4*a*(c - fx))) / (2*a)
SolveQuadratic(c, fx) ==
    LET disc == RSub(RInt(c[2] * c[2]),
                     RMul(RInt(4 * c[1]), RSub(RInt(c[3]), fx)))
        root == RRoot(disc, 2)
        den == RInt(2 * c[1])
    IN  MaxRoot(RDiv(RAdd(RInt(-c[2]), root), den),
                RDiv(RSub(RInt(-c[2]), root), den))

\* MATH_MODELS[...](fx, coeffs) of the kind's solver
ModelSolve(kind, c, fx) ==
    CASE kind = "linear" -> SolveLinear(c, fx)
      [] kind = "quadratic" -> SolveQuadratic(c, fx)
      [] kind = "power" -> RRoot(RDiv(fx, RInt(c[1])), c[2])
      [] kind = "root" ->
            RDiv(RAdd(RSub(RMul(fx, fx), RMul(RInt(2 * c[2]), fx)),
                      RInt(c[2] * c[2])),
                 RInt(c[1] * c[1]))
      [] kind = "hyperbolic" -> RDiv(RInt(c[1]), RSub(fx, RInt(c[2])))
      [] OTHER -> Rat(ILog2(RDiv(RSub(fx, RInt(c[3])), RInt(c[1])).n), c[2])

\* a model of some kind and a step value of its domain
InitModel ==
    /\ NoCommand
    /\ fn_pc = "ready"
    /\ \E kind \in ModelKinds :
          fn_args \in [kind : {kind}, coeffs : ModelCoeffs(kind),
                       x : ModelDomain(kind)]
    /\ fn_result = <<>>
    /\ kf = UnitGainKalman
    /\ kf_calls = <<>>

\* the forward formula gives the magnitude of the step value
Forward ==
    /\ fn_pc = "ready"
    /\ fn_result' = [fx |-> ModelForward(fn_args.kind, fn_args.coeffs, fn_args.x),
                     x |-> RInt(0)]
    /\ fn_pc' = "forward"
    /\ UNCHANGED <<config_vars, wait_vars, ctl_vars, fn_args, kf, kf_calls>>

\* model_solve(fx)
Solve ==
    /\ fn_pc = "forward"
    /\ fn_result' = [fn_result EXCEPT
                       !.x = ModelSolve(fn_args.kind, fn_args.coeffs, fn_result.fx)]
    /\ fn_pc' = "done"
    /\ UNCHANGED <<config_vars, wait_vars, ctl_vars, fn_args, kf, kf_calls>>

NextModel ==
    \/ Forward
    \/ Solve

SpecModel == InitModel /\ [][NextModel]_vars

\* ------------------------------------------------------------------- Spec
Next ==
    \/ CmdSyncMotors
    \/ StartAxis
    \/ InTolerance
    \/ RunSequential
    \/ SeqAxis
    \/ SeqLoop
    \/ RunAlternately
    \/ AL_Refresh
    \/ AL_Move
    \/ AL_Measure
    \/ AL_Revert
    \/ AltLoop
    \/ RunSynchronous
    \/ SyncLoop
    \/ DetectSign
    \/ DetectProbeMove
    \/ DetectProbeMeasure
    \/ SS_CheckAxis
    \/ SS_Unknown
    \/ SS_Move
    \/ SS_Measure
    \/ SS_Revert
    \/ DoneAxis
    \/ Final

Spec == Init /\ [][Next]_vars

\* ------------------------------------------- a run followed without end
\* a sequential printer whose run is followed past any number of
\* measurements: the log is not counted, the offsets are kept up to MaxOffset
InitLive ==
    /\ chip \in {"accelerometer", "encoder"}
    /\ sync_method = "sequential"
    /\ max_step_size = 1
    /\ \E t \in {0, RetryTol} : retry_tolerance = [a \in AxisNames |-> t]
    /\ \E r \in 0..MaxRetriesCfg : max_retries = [a \in AxisNames |-> r]
    /\ retry_tolerance["x"] = 0 => max_retries["x"] = 0
    /\ counting = FALSE
    /\ enc_values = MagValues \cup EncoderNegatives
    /\ measure_cap = MaxMeasures
    /\ ControllerIdle
    /\ WaitOff
    /\ CalcOff

NextLive ==
    \/ CmdSyncMotors
    \/ StartAxis
    \/ InTolerance
    \/ RunSequential
    \/ SeqAxis
    \/ SeqLoop
    \/ DetectSign
    \/ DetectProbeMove
    \/ DetectProbeMeasure
    \/ SS_Unknown
    \/ SS_Move
    \/ SS_Measure
    \/ SS_Revert
    \/ DoneAxis
    \/ Final

\* the command keeps running: a step that can be taken is taken
SpecLive == InitLive /\ [][NextLive]_vars /\ WF_vars(NextLive)

\* ------------------------------------------- the window of a measurement
\* the latest timestamp of a buffered sample of the model
MaxTime == 5
\* samples the buffer of the model holds
MaxBuffered == 3

\* np.searchsorted(q, v, side) on the sorted q: the number of elements
\* before v (side='left'), or not after v (side='right')
searchsorted(q, v, side) ==
    IF side = "left"
    THEN Cardinality({i \in 1..Len(q) : q[i] < v})
    ELSE Cardinality({i \in 1..Len(q) : q[i] <= v})

\* _get_accel_samples / _get_encoder_samples: raw_data[start_idx:end_idx], as
\* the timestamps of the rows it keeps
get_samples(times, start, end) ==
    LET start_idx == searchsorted(times, start, "left")
        end_idx == searchsorted(times, end, "right")
    IN  IF end_idx <= start_idx THEN <<>> ELSE Slice(times, start_idx, end_idx)

\* the buffers the sensor may have filled in arrival order
Buffers ==
    {q \in UNION {[1..n -> 0..MaxTime] : n \in 1..MaxBuffered} :
        \A i \in 1..(Len(q) - 1) : q[i] < q[i + 1]}

\* _wait_samples returned: the buffer's last sample is past the window end,
\* which update_end_time set after update_start_time set the start and
\* toggle_main_stepper(1) dwelled
InitWindow ==
    /\ NoCommand
    /\ fn_pc = "ready"
    /\ \E q \in Buffers : \E e \in 2..(q[Len(q)] - 1) : \E b \in 1..(e - 1) :
          fn_args = [times |-> q, start |-> b, end |-> e]
    /\ fn_result = <<>>
    /\ kf = UnitGainKalman
    /\ kf_calls = <<>>

GetSamples ==
    /\ fn_pc = "ready"
    /\ fn_result' = get_samples(fn_args.times, fn_args.start, fn_args.end)
    /\ fn_pc' = "done"
    /\ UNCHANGED <<config_vars, wait_vars, ctl_vars, fn_args, kf, kf_calls>>

NextWindow == GetSamples

SpecWindow == InitWindow /\ [][NextWindow]_vars

\* --------------------------------------- an encoder that may read zero
\* the printer with encoders whose deviation may be negative, zero or
\* positive; every policy
InitSign ==
    /\ chip = "encoder"
    /\ sync_method \in {"sequential", "alternately", "synchronous"}
    /\ max_step_size \in 1..MaxStepCfg
    /\ \E t \in {0, RetryTol} : retry_tolerance = [a \in AxisNames |-> t]
    /\ \E r \in 0..MaxRetriesCfg : max_retries = [a \in AxisNames |-> r]
    /\ retry_tolerance["x"] = 0 => max_retries["x"] = 0
    /\ counting = TRUE
    /\ enc_values = EncoderAroundZero
    /\ measure_cap = MaxMeasures
    /\ ControllerIdle
    /\ WaitOff
    /\ CalcOff

\* the steps of a command on encoders: no probe
NextSign ==
    \/ CmdSyncMotors
    \/ StartAxis
    \/ InTolerance
    \/ RunSequential
    \/ SeqAxis
    \/ SeqLoop
    \/ RunAlternately
    \/ AL_Refresh
    \/ AL_Move
    \/ AL_Measure
    \/ AL_Revert
    \/ AltLoop
    \/ RunSynchronous
    \/ SyncLoop
    \/ DetectSign
    \/ SS_CheckAxis
    \/ SS_Unknown
    \/ SS_Move
    \/ SS_Measure
    \/ SS_Revert
    \/ DoneAxis
    \/ Final

SpecSign == InitSign /\ [][NextSign]_vars

\* ------------------------------------------------------------------ claims
\* the overshoot that exhausts the retries of cur_m, before the revert step
ExhaustingOvershoot ==
    /\ pc \in {"ss_revert", "al_revert"}
    /\ ax[cur_m].new_magnitude > ax[cur_m].magnitude
    /\ retry_tolerance[cur_m] # 0
    /\ ax[cur_m].magnitude > retry_tolerance[cur_m]
    /\ ax[cur_m].curr_retry + 1 > max_retries[cur_m]

\* C1: in _single_sync and in _axes_level the step that handles an overshoot
\* with a configured tolerance, a pre-move magnitude above it and an
\* incremented retry counter above max_retries raises 'Too many retries';
\* once that error is raised no step issues a move or a measurement or
\* changes the run state of an axis.
C1_RetryExhaustionIsTerminal ==
    [][/\ ExhaustingOvershoot => (err' = "Too many retries" /\ pc' = "raised")
       /\ err = "Too many retries" =>
             (op'.kind = "none" /\ ax' = ax /\ pc' = "raised")]_vars

C1_Witness ==
    /\ err = "Too many retries"
    /\ pc = "raised"
    /\ op.kind = "move"
    /\ ax[cur_m].new_magnitude > ax[cur_m].magnitude

C3_FinishedExactlyOnce ==
    err = "Too many retries" =>
        \A a \in AxisNames : started[a] > 0 => finish_calls[a] = 1

\* C4: when the command has returned (normal completion or the in-tolerance
\* exit) or has raised retry exhaustion, the main motor of every axis started
\* in the run is enabled.
C4_MainMotorEnabledAtEnd ==
    (pc = "returned" \/ err = "Too many retries") =>
        \A a \in AxisNames : started[a] > 0 => main_enabled[a]

\* C5: a poll of _wait_samples that read a clock value past the deadline ends
\* the wait: it returns or raises, it does not go back to polling.
C5_WaitEndsAtDeadline == w_pc = "top" => ~(w_now > w_lim)

\* C6: when the sensor timeout has been raised, every started axis has its
\* measurement session finished and its main motor enabled.
C6_TimeoutCleansUp ==
    err = "No data from sensor" =>
        \A a \in AxisNames :
            started[a] > 0 => (finish_calls[a] > 0 /\ main_enabled[a])

\* C7: in _single_sync the magnitude of the axis is not changed by the
\* corrective move nor by the measurement that finds the overshoot; when no
\* tolerance is configured or the pre-move magnitude does not exceed it, the
\* revert step moves back by the same microsteps, marks the axis finished,
\* keeps its magnitude and its retry counter and raises no error.
C7_OvershootWithoutRetryFinishes ==
    [][/\ pc' \in {"ss_meas", "ss_revert"} =>
             ax'[cur_m].magnitude = ax[cur_m].magnitude
       /\ pc' = "ss_revert" => ax'[cur_m].new_magnitude > ax'[cur_m].magnitude
       /\ (/\ pc = "ss_revert"
           /\ (retry_tolerance[cur_m] = 0
               \/ ~(ax[cur_m].magnitude > retry_tolerance[cur_m])))
          => /\ ax'[cur_m].is_finished
             /\ ax'[cur_m].magnitude = ax[cur_m].magnitude
             /\ ax'[cur_m].curr_retry = ax[cur_m].curr_retry
             /\ ax'[cur_m].actual_msteps = ax[cur_m].actual_msteps + op'.msteps
             /\ op'.kind = "move"
             /\ op'.msteps = -(ax[cur_m].move_msteps * ax[cur_m].move_dir)
             /\ err' = ""
             /\ pc' # "raised"]_vars

C7_Witness ==
    /\ op.kind = "move"
    /\ ax[cur_m].is_finished
    /\ ax[cur_m].new_magnitude > ax[cur_m].magnitude
    /\ ax[cur_m].magnitude > 0
    /\ err = ""

\* C8: an axis whose every measurement before any move was below its retry
\* tolerance is never moved in the run.
C8_InToleranceAxisIsNotMoved ==
    \A a \in AxisNames : premove_below[a] => ~moved[a]

\* C9 (as claimed): the corrective move of _single_sync commands
\* clamp(round(solve(magnitude)), 1, max_step_size) microsteps.
C9_StepsAreRounded ==
    pc = "ss_meas" =>
        ax[cur_m].move_msteps =
            Min2(Max2(RoundDiv(ax[cur_m].magnitude - model_b, model_a), 1),
                 max_step_size)

\* C9 (amended): the corrective move of _single_sync commands
\* clamp(trunc(solve(magnitude)), 1, max_step_size) microsteps, trunc cutting
\* the fraction off; a model value of 0.4 gives 1 step and the count is
\* always between 1 and max_step_size.
C9_StepsAreTruncated ==
    pc = "ss_meas" =>
        /\ ax[cur_m].move_msteps =
              Min2(Max2((ax[cur_m].magnitude - model_b) \div model_a, 1),
                   max_step_size)
        /\ Abs(op.msteps) = ax[cur_m].move_msteps
        /\ ax[cur_m].move_msteps \in 1..max_step_size
        /\ ax[cur_m].magnitude = 8000 => ax[cur_m].move_msteps = 1

C9_Witness ==
    /\ pc = "ss_meas"
    /\ ax[cur_m].magnitude = 36000
    /\ max_step_size >= 2
    /\ ax[cur_m].move_msteps = 1

\* C10: every micro-move of a run commands at most max_step_size microsteps.
C10_MovesWithinMaxStepSize ==
    op.kind = "move" => Abs(op.msteps) <= max_step_size

\* C11: the magnitude _calc_magnitude returns is never negative, for every
\* burst and every configured filter.
C11_MagnitudeNeverNegative ==
    (fn_pc = "done" /\ fn_result.kind = "value") => fn_result.hundredths >= 0

C13_MedianWindowIsMedianSize ==
    (fn_pc = "done" /\ ~fn_result.raised) =>
        LET in == fn_args.samples
            w == fn_args.w
        IN  /\ Len(fn_result.out) = Len(in) - 2 * (w \div 2)
            /\ \A j \in 1..Len(fn_result.out) :
                  fn_result.out[j] = Median(SubSeq(in, j, j + w - 1))

\* C14: two process_samples calls on one filter object with the same samples
\* return the same array, whatever was processed in between; every call
\* returns what a newly constructed filter returns.
C14_CallsAreIndependent ==
    /\ \A i, j \in 1..Len(kf_calls) :
          kf_calls[i].samples = kf_calls[j].samples =>
              kf_calls[i].out = kf_calls[j].out
    /\ \A i \in 1..Len(kf_calls) :
          kf_calls[i].out =
              Updates(KalmanLiteFilter(kf.A, kf.H, kf.Q, kf.R, kf.st_p, kf.st_x),
                      kf_calls[i].samples).out

C14_Witness ==
    /\ Len(kf_calls) = 3
    /\ kf_calls[1].samples = kf_calls[3].samples
    /\ kf_calls[2].samples # kf_calls[1].samples
    /\ kf_calls[2].out # kf_calls[1].out
    /\ kf.P # kf.st_p

\* C15: at every sample the gain is K = P'*H / (H*P'*H + R), with
\* P' = A*P*A + Q the predicted covariance, x = x' + K*(z - H*x') and
\* P = (1 - K*H)*P'; with A = H = 1, Q = 0, R = 1, P0 = 1 the first gain is 1/2.
C15_GainDividesByInnovation ==
    \A i \in 1..Len(fn_result) :
        LET t == fn_result[i]
        IN  /\ t.K * (kf.H * t.Pp * kf.H + kf.R) = t.Pp * kf.H
            /\ t.x = t.xp + t.K * (t.z - kf.H * t.xp)
            /\ t.P = (1 - t.K * kf.H) * t.Pp
            /\ (i = 1 /\ kf.Q = 0 /\ kf.R = 1 /\ kf.st_p = 1) => 2 * t.K = 1

\* the step value is before the vertex -b/(2a) of the parabola
BeforeVertex ==
    /\ fn_args.kind = "quadratic"
    /\ (2 * fn_args.coeffs[1] * fn_args.x + fn_args.coeffs[2]) * fn_args.coeffs[1] < 0

\* C16 (as claimed): for every kind and every step value x of the domain,
\* solve(f(x)) = x.
C16_SolveInvertsForward ==
    fn_pc = "done" => fn_result.x = RInt(fn_args.x)

\* C16 (amended): solve(f(x)) = x for the linear, power, root, hyperbolic and
\* exponential kinds, and for the quadratic kind when x is at or beyond the
\* vertex -b/(2a); for x before the vertex solve returns -b/a - x.
C16_SolveInvertsForwardFromVertex ==
    fn_pc = "done" =>
        IF BeforeVertex
        THEN fn_result.x = Rat(-fn_args.coeffs[2] - fn_args.coeffs[1] * fn_args.x,
                               fn_args.coeffs[1])
        ELSE fn_result.x = RInt(fn_args.x)

C16_Witness ==
    /\ fn_pc = "done"
    /\ fn_args.kind = "quadratic"
    /\ fn_args.coeffs = <<1, -4, 3>>
    /\ fn_args.x = 3
    /\ fn_result.fx = RInt(0)
    /\ fn_result.x = RInt(3)

\* the positions of a command inside _axes_level
InAxesLevel(p, r) ==
    \/ p \in {"al_refresh", "al_move", "al_meas", "al_revert"}
    \/ p \in {"dmd", "dmd_meas"} /\ r = "al_move"

\* C17: when _axes_level is entered with the main axis's initial magnitude
\* minus the secondary's at most AXES_LEVEL_DELTA it returns at once: the
\* step issues no move and no measurement and changes no run state of an
\* axis, and the command is never inside the leveling loop.
C17_LevelingSkippedWithinDelta ==
    [][/\ (/\ pc = "check_tol"
           /\ RunNeeded
           /\ Policy = "alt"
           /\ ax[MaxAxis].init_magnitude - ax[MinAxis].init_magnitude
                 <= AXES_LEVEL_DELTA)
          => /\ pc' = "alt_loop"
             /\ ax' = ax
             /\ op' = NoOp
             /\ UNCHANGED <<raw_deviation, moved, main_enabled, stats>>
       /\ InAxesLevel(pc', ret')
          => ax'[cur_m'].init_magnitude - ax'[cur_s'].init_magnitude
                 > AXES_LEVEL_DELTA]_vars

C17_Witness ==
    /\ pc = "alt_loop"
    /\ Policy = "alt"
    /\ idx = 1
    /\ op = NoOp
    /\ ax["x"].init_magnitude = ax["y"].init_magnitude
    /\ ax["x"].init_magnitude = 24000
    /\ \A a \in AxisNames : ~moved[a] /\ ax[a].log_len = 1

\* C18: in a run that has raised a fatal error the 'done' report ("Motors
\* adjusted by ...") was emitted for no axis.
C18_NoDoneReportOnError ==
    err # "" => done_reports = {}

SequentialPhase ==
    /\ Policy = "seq"
    /\ pc \in {"seq_axis", "seq_loop", "dmd", "dmd_meas", "ss_entry", "ss_move",
               "ss_meas", "ss_revert"}

\* C20: under the sequential policy every step of the convergence phase
\* leaves the run state of every axis but the current one unchanged, and a
\* move or a measurement is issued only for the current axis, with every
\* axis before it in self.axes finished.
C20_SequentialOneAxisAtATime ==
    [][SequentialPhase =>
          /\ \A a \in AxisNames \ {cur_m'} : ax'[a] = ax[a]
          /\ op'.kind # "none" =>
                /\ op'.axis = cur_m'
                /\ \A i \in 1..Len(axes) :
                      axes[i] = cur_m' =>
                          \A j \in 1..(i - 1) : ax[axes[j]].is_finished]_vars

C20_Witness ==
    /\ sync_method = "sequential"
    /\ axes = <<"x", "y">>
    /\ pc = "ss_meas"
    /\ cur_m = "y"
    /\ op = MoveOp("y", ax["y"].move_msteps * ax["y"].move_dir)
    /\ ax["x"].is_finished
    /\ moved["x"]

\* the positions of a command in the cycle over the axes of the alternating
\* policy, _single_sync and its direction detection included
InAltCycle(p, r) ==
    \/ p \in {"alt_loop", "ss_entry", "ss_move", "ss_meas", "ss_revert"}
    \/ p \in {"dmd", "dmd_meas"} /\ r = "ss_move"

\* C21: under the alternating policy the cycle over the axes starts only
\* when _axes_level has returned and the command never goes back into the
\* leveling loop; the cycle visits the axes in rotation; the visit of a
\* finished axis issues no move and no measurement and changes no axis; the
\* visit of an unfinished axis runs _single_sync for it, whose moves and
\* measurements are for that axis; the cycle is left exactly when every
\* selected axis is finished.
C21_LevelThenStrictRotation ==
    [][Policy = "alt" =>
          /\ (InAltCycle(pc, ret) /\ pc' # "raised") =>
                (InAltCycle(pc', ret') \/ pc' = "done")
          /\ (InAltCycle(pc', ret') /\ ~InAltCycle(pc, ret)) =>
                /\ pc' = "alt_loop"
                /\ idx' = 1
                /\ pc = "check_tol" \/ InAxesLevel(pc, ret)
          /\ (InAltCycle(pc, ret) /\ op'.kind # "none") => op'.axis = cur_m
          /\ pc = "alt_loop" =>
                /\ op' = NoOp
                /\ ax' = ax
                /\ (pc' = "done") = AllFinished(ax)
                /\ pc' # "done" => idx' = CycleNext(idx)
                /\ ax[order[idx]].is_finished => pc' \in {"alt_loop", "done"}
                /\ ~ax[order[idx]].is_finished =>
                      (pc' = "ss_entry" /\ cur_m' = order[idx])]_vars

C21_Witness ==
    /\ Policy = "alt"
    /\ pc = "alt_loop"
    /\ ax[MaxAxis].init_magnitude - ax[MinAxis].init_magnitude > AXES_LEVEL_DELTA
    /\ moved[MaxAxis]
    /\ ax[order[idx]].is_finished
    /\ ~AllFinished(ax)

\* the turn of the synchronous loop that calls _single_sync(m) to move m
SyncAdvance ==
    /\ Policy = "sync"
    /\ pc = "sync_loop"
    /\ pc' = "ss_entry"
    /\ ~check_axis'

\* under the synchronous policy a move is issued only inside the
\* _single_sync(m) a turn of the loop called without check_axis, or by the
\* direction detection before the loop, and it moves that axis
SyncMovesFollowAdvance ==
    (Policy = "sync" /\ op'.kind = "move") =>
        /\ pc \in {"dmd", "ss_entry", "ss_move", "ss_revert"}
        /\ ~check_axis
        /\ op'.axis = cur_m

\* C22 (as claimed): under the synchronous policy the loop advances an axis
\* only when its magnitude is not below its neighbour's, also when the
\* neighbour is finished.
C22_AdvanceOnlyWhenNotBelow ==
    [][/\ SyncMovesFollowAdvance
       /\ SyncAdvance =>
             ~(ax[cur_m'].magnitude < ax[cur_s'].magnitude)]_vars

\* C22 (amended): under the synchronous policy the loop advances an axis only
\* when its magnitude is not below its neighbour's or the neighbour is
\* finished.
C22_AdvanceOnlyWhenNotBelowUnfinished ==
    [][/\ SyncMovesFollowAdvance
       /\ SyncAdvance =>
             /\ cur_m' = order[idx]
             /\ cur_s' # cur_m'
             /\ \/ ~(ax[cur_m'].magnitude < ax[cur_s'].magnitude)
                \/ ax[cur_s'].is_finished]_vars

C22_Witness ==
    /\ Policy = "sync"
    /\ pc = "ss_meas"
    /\ op.kind = "move"
    /\ op.axis = cur_m
    /\ ~ax[cur_s].is_finished
    /\ ax[cur_m].magnitude > ax[cur_s].magnitude
    /\ moved[cur_s]

\* C23: under the synchronous policy no corrective move is issued for an
\* axis while the step divergence between it and its unfinished neighbour
\* exceeds axes_steps_diff: an axis is measured again and both check_msteps
\* are set to 0 first; the measurement that refreshes an axis does not move
\* it and finds both counters at 0.
C23_RefreshBeforeMoveOnDivergence ==
    [][Policy = "sync" =>
          /\ (/\ pc \in {"ss_entry", "ss_move"}
              /\ pc' = "ss_meas"
              /\ ~ax[cur_s].is_finished) =>
                StepsDiff(ax, cur_m, cur_s) <= axes_steps_diff
          /\ (pc = "ss_entry" /\ check_axis) =>
                /\ op'.kind = "measure"
                /\ op'.axis = cur_m
                /\ ax[cur_m].check_msteps = 0
                /\ ax[cur_s].check_msteps = 0
                /\ ax'[cur_m].actual_msteps = ax[cur_m].actual_msteps]_vars

\* C24: the probe detection of the accelerometer issues one move of
\* move_msteps microsteps in the forward direction, then one measurement,
\* and returns; when it returns the direction is Backward if the measured
\* magnitude is above the magnitude before the probe and Forward otherwise,
\* equality included, never 'unknown', and the measured magnitude is the
\* axis's magnitude.
C24_ProbeOneMoveOneMeasure ==
    [][/\ (pc = "dmd" /\ chip = "accelerometer") =>
             /\ pc' = "dmd_meas"
             /\ op' = MoveOp(cur_m, ax[cur_m].move_msteps)
             /\ op'.msteps > 0
             /\ ax'[cur_m].move_dir = 1
             /\ ax'[cur_m].actual_msteps = ax[cur_m].actual_msteps + op'.msteps
             /\ ax'[cur_m].magnitude = ax[cur_m].magnitude
       /\ (pc = "dmd_meas" /\ pc' # "raised") =>
             /\ pc' = ret
             /\ pc' \notin {"dmd", "dmd_meas"}
             /\ op' = MeasureOp(cur_m)
             /\ ax'[cur_m].actual_msteps = ax[cur_m].actual_msteps
             /\ ax'[cur_m].log_len = ax[cur_m].log_len + 1
             /\ ax'[cur_m].magnitude = ax'[cur_m].new_magnitude
             /\ ax'[cur_m].dir_name # "unknown"
             /\ IF ax'[cur_m].new_magnitude > ax[cur_m].magnitude
                THEN ax'[cur_m].dir_name = "Backward" /\ ax'[cur_m].move_dir = -1
                ELSE ax'[cur_m].dir_name = "Forward" /\ ax'[cur_m].move_dir = 1]_vars

\* the first axis of a sequential run after a probe that measured the initial
\* magnitude again
C24_Witness ==
    /\ chip = "accelerometer"
    /\ pc = "seq_loop"
    /\ op = MeasureOp(cur_m)
    /\ ax[cur_m].log_len = 2
    /\ ax[cur_m].actual_msteps = INIT_MOVE_MSTEPS
    /\ ax[cur_m].magnitude = ax[cur_m].init_magnitude
    /\ ax[cur_m].dir_name = "Forward"

\* C25: the sign detection of the encoder sets the direction to Backward
\* when the raw deviation of the axis's last extraction is negative and to
\* Forward when it is zero or positive; the step issues no move and no
\* measurement and leaves the offsets, the magnitude and the log of the axis,
\* the raw deviations and every other axis unchanged.
C25_SignDetectionIsPure ==
    [][(pc = "dmd" /\ chip = "encoder") =>
          /\ pc' = ret
          /\ op' = NoOp
          /\ IF raw_deviation[cur_m] < 0
             THEN ax'[cur_m].dir_name = "Backward" /\ ax'[cur_m].move_dir = -1
             ELSE ax'[cur_m].dir_name = "Forward" /\ ax'[cur_m].move_dir = 1
          /\ ax'[cur_m].actual_msteps = ax[cur_m].actual_msteps
          /\ ax'[cur_m].check_msteps = ax[cur_m].check_msteps
          /\ ax'[cur_m].magnitude = ax[cur_m].magnitude
          /\ ax'[cur_m].init_magnitude = ax[cur_m].init_magnitude
          /\ ax'[cur_m].log_len = ax[cur_m].log_len
          /\ \A a \in AxisNames \ {cur_m} : ax'[a] = ax[a]
          /\ UNCHANGED <<raw_deviation, moved, main_enabled>>]_vars

\* the detection before _single_sync of a sequential run, on a deviation of 0
C25_Witness ==
    /\ chip = "encoder"
    /\ pc = "seq_loop"
    /\ op = NoOp
    /\ raw_deviation[cur_m] = 0
    /\ ax[cur_m].magnitude = 0
    /\ ax[cur_m].log_len = 1
    /\ ax[cur_m].dir_name = "Forward"
    /\ ax[cur_m].move_dir = 1

\* C26: the step of _single_sync or _axes_level that retries an axis
\* without raising leaves its direction 'unknown'; a direction becomes known
\* only by a step of the direction detection of that axis, and every
\* corrective or leveling move is issued with a known direction, so a
\* detection runs between a retry and the next such move; _single_sync and
\* _axes_level enter the detection only with the direction 'unknown'.
C26_RetryForcesDetection ==
    [][/\ (/\ pc \in {"ss_revert", "al_revert"}
           /\ pc' # "raised"
           /\ ax'[cur_m].curr_retry # ax[cur_m].curr_retry) =>
             ax'[cur_m].dir_name = "unknown"
       /\ \A a \in AxisNames :
             (ax[a].dir_name = "unknown" /\ ax'[a].dir_name # "unknown") =>
                (pc \in {"dmd", "dmd_meas"} /\ a = cur_m)
       /\ (pc' \in {"ss_meas", "al_meas"} /\ op'.kind = "move") =>
             (ax[cur_m].dir_name # "unknown" /\ op'.axis = cur_m)
       /\ (pc' = "dmd" /\ ret' \in {"ss_move", "al_move"}) =>
             ax'[cur_m'].dir_name = "unknown"]_vars

\* the corrective move after a retry and the detection that followed it
C26_Witness ==
    /\ pc = "ss_meas"
    /\ op.kind = "move"
    /\ op.axis = cur_m
    /\ ax[cur_m].curr_retry = 1
    /\ max_retries[cur_m] = 1
    /\ ax[cur_m].dir_name # "unknown"

\* the exit test of _axes_level on the values a leveling iteration left
LevelExitHolds ==
    \/ ax'[cur_m].new_magnitude - ax'[cur_s].magnitude < AXES_LEVEL_DELTA
    \/ ax'[cur_m].new_magnitude < ax'[cur_s].magnitude
    \/ force_exit'

\* C27 (as claimed): the step that ends a leveling iteration without a fatal
\* error returns from _axes_level exactly when the gap is below
\* AXES_LEVEL_DELTA, the main magnitude is below the secondary's or the exit
\* is forced, and goes on with the leveling loop otherwise.
C27_LevelReturnsExactlyOnExit ==
    [][(\/ pc = "al_meas" /\ pc' \notin {"al_revert", "raised"}
        \/ pc = "al_revert" /\ pc' # "raised") =>
          /\ (pc' = "alt_loop") = LevelExitHolds
          /\ pc' # "alt_loop" => InAxesLevel(pc', ret')]_vars

\* C27 (amended): after a leveling move that did not overshoot, _axes_level
\* returns exactly when the gap is below AXES_LEVEL_DELTA or the main
\* magnitude is below the secondary's, and goes on with the loop otherwise;
\* after an overshoot that does not qualify for a retry the exit is forced
\* and it returns; after an overshoot that qualifies for a retry and does not
\* exhaust the retries it goes on with the loop whatever the gap is.
C27_LevelReturnsOnExitUnlessRetry ==
    [][/\ (pc = "al_meas" /\ pc' \notin {"al_revert", "raised"}) =>
             /\ ~(ax'[cur_m].new_magnitude > ax[cur_m].magnitude)
             /\ (pc' = "alt_loop") = LevelExitHolds
             /\ pc' # "alt_loop" => InAxesLevel(pc', ret')
             /\ ~force_exit'
       /\ (pc = "al_meas" /\ pc' = "al_revert") =>
             ax'[cur_m].new_magnitude > ax[cur_m].magnitude
       /\ (pc = "al_revert" /\ pc' # "raised") =>
             IF retry_tolerance[cur_m] # 0
                /\ ax[cur_m].magnitude > retry_tolerance[cur_m]
             THEN /\ pc' # "alt_loop"
                  /\ InAxesLevel(pc', ret')
                  /\ ~force_exit'
                  /\ ax'[cur_m].curr_retry = ax[cur_m].curr_retry + 1
             ELSE /\ pc' = "alt_loop"
                  /\ force_exit']_vars

\* the leveling returned on a gap that closed to zero
C27_Witness ==
    /\ Policy = "alt"
    /\ pc = "alt_loop"
    /\ idx = 1
    /\ op = MeasureOp(cur_m)
    /\ cur_m = MaxAxis
    /\ moved[cur_m]
    /\ ax[cur_s].log_len = 1
    /\ ~force_exit
    /\ ax[cur_m].magnitude = ax[cur_s].magnitude
    /\ ax[cur_m].init_magnitude - ax[cur_s].init_magnitude > AXES_LEVEL_DELTA

\* C28: every move whose step count comes from model_solve() without an
\* argument, the corrective move of _single_sync and the leveling move of
\* _axes_level, is computed in a state where new_magnitude of the axis equals
\* its magnitude.
C28_SolveReadsCurrentMagnitude ==
    [][(pc' \in {"ss_meas", "al_meas"} /\ op'.kind = "move") =>
          /\ op'.axis = cur_m
          /\ ax[cur_m].new_magnitude = ax[cur_m].magnitude
          /\ ax'[cur_m].move_msteps =
                IF pc' = "ss_meas" THEN SingleSyncSteps(cur_m)
                ELSE AxesLevelSteps(cur_m, cur_s)]_vars

\* the corrective move of an axis that was retried, after the neighbour was
\* checked again, under the synchronous policy
C28_Witness ==
    /\ Policy = "sync"
    /\ pc = "ss_meas"
    /\ op.kind = "move"
    /\ ax[cur_m].curr_retry = 1
    /\ ax[cur_s].log_len >= 2
    /\ ax[cur_m].new_magnitude = ax[cur_m].magnitude
    /\ ax[cur_m].magnitude # ax[cur_m].init_magnitude

\* C29: while a move or a measurement of an axis is issued, the main stepper
\* of every axis of its joint_axes is disabled.
C29_JointAxesDisabledDuringOp ==
    op.kind # "none" => \A j \in joint_axes(op.axis) : ~main_enabled[j]

\* C30: the samples an extraction uses are the buffered samples stamped t
\* with start <= t < end, in arrival order.
C30_WindowIsHalfOpen ==
    fn_pc = "done" =>
        fn_result = SelectSeq(fn_args.times,
                              LAMBDA t : fn_args.start <= t /\ t < fn_args.end)

\* ------------------------------------------- one command after another
\* the command returned or raised: the dispatcher that register_command
\* handed cmd_SYNC_MOTORS to is ready for the next SYNC_MOTORS; the locals of
\* the handlers are gone, the objects keep what the run left in them
CommandOver ==
    /\ pc \in {"returned", "raised"}
    /\ pc' = "idle"
    /\ ret' = ""
    /\ cur_m' = "x"
    /\ cur_s' = "y"
    /\ order' = <<>>
    /\ idx' = 1
    /\ check_axis' = FALSE
    /\ force_exit' = FALSE
    /\ op' = NoOp
    /\ UNCHANGED <<config_vars, calc_vars, wait_vars, axes, force_run, ax,
                   raw_deviation, started, finish_calls, main_enabled, fan_on,
                   err, stats, done_reports, moved, track, premove_below>>

\* measurements of one run that the model follows when commands follow
\* one another
MaxRunMeasures == 5

\* a printer with a retry tolerance, every policy
InitRuns ==
    /\ chip \in {"accelerometer", "encoder"}
    /\ sync_method \in {"sequential", "alternately", "synchronous"}
    /\ max_step_size = MaxStepCfg
    /\ retry_tolerance = [a \in AxisNames |-> RetryTol]
    /\ \E r \in 0..MaxRetriesCfg : max_retries = [a \in AxisNames |-> r]
    /\ counting = TRUE
    /\ enc_values = MagValues \cup EncoderNegatives
    /\ measure_cap = MaxRunMeasures
    /\ ControllerIdle
    /\ WaitOff
    /\ CalcOff

NextRuns == Next \/ CommandOver

SpecRuns == InitRuns /\ [][NextRuns]_vars

\* C31: the step of handle_state(axis, 'start') leaves the axis with the
\* initial value in every run-state field (direction, move size, cumulative
\* offset, re-check offset, new magnitude, retry counter, finished flag), the
\* initial and the current magnitude being the one first measurement of the
\* run (0 when it timed out) and the log holding that measurement alone,
\* whatever the previous run left in the axis; the calibration fields
\* (max_step_size, retry tolerance, max_retries, and with max_step_size the
\* divergence threshold) are the same after the step
C31_StartFlushesRunState ==
    [][pc = "start" =>
        LET g == ax'[axes[idx]]
        IN  /\ g.move_dir = 1
            /\ g.dir_name = "unknown"
            /\ g.move_msteps = 2
            /\ g.actual_msteps = 0
            /\ g.check_msteps = 0
            /\ g.new_magnitude = 0
            /\ g.curr_retry = 0
            /\ g.is_finished = FALSE
            /\ g.init_magnitude = g.magnitude
            /\ IF pc' = "raised"
               THEN g.magnitude = 0 /\ g.log_len = 0
               ELSE g.magnitude \in {Magnitude(out) : out \in Outcomes}
                    /\ g.log_len = 1
            /\ max_step_size' = max_step_size
            /\ retry_tolerance' = retry_tolerance
            /\ max_retries' = max_retries]_vars

\* x was started alone after a run of both axes that ended in the fatal
\* error of y: x holds its first measurement and nothing of the earlier run
C31_Witness ==
    /\ pc = "check_tol"
    /\ axes = <<"x">>
    /\ ax["y"].curr_retry > max_retries["y"]
    /\ ax["y"].actual_msteps = 0
    /\ ax["x"].log_len = 1
    /\ ax["x"].curr_retry = 0

\* C32: after every step of a run the cumulative offset actual_msteps of
\* each started axis is the sum of the signed microsteps of the moves issued
\* for it since the run started, and the step that reverts an overshooting
\* move leaves actual_msteps and check_msteps as they were before that move
C32_OffsetIsSumOfMoves ==
    [][/\ \A a \in AxisNames :
            InRun(a)' /\ started'[a] > 0 =>
                ax'[a].actual_msteps = track'[a].issued
       /\ pc \in {"ss_revert", "al_revert"} =>
            /\ ax'[cur_m].actual_msteps = track[cur_m].pre_actual
            /\ ax'[cur_m].check_msteps = track[cur_m].pre_check]_vars

\* an overshooting move, made after the axis had already been moved and the
\* re-check offsets had been reset, was reverted
C32_Witness ==
    /\ op.kind = "move"
    /\ pc # "dmd_meas"
    /\ \E a \in AxisNames :
          /\ op.axis = a
          /\ op.msteps = -(ax[a].move_msteps * ax[a].move_dir)
          /\ ax[a].actual_msteps # 0
          /\ ax[a].check_msteps # ax[a].actual_msteps
          /\ ax[a].actual_msteps = track[a].pre_actual

\* C33: the step that reverts an overshooting move, in _single_sync and in
\* _axes_level, with a retry, a fatal error, a finish or a forced exit,
\* leaves the current magnitude of the axis as it was before the move: the
\* magnitude measured at the position the revert left
C33_RevertKeepsMagnitude ==
    [][(pc \in {"ss_revert", "al_revert"}) =>
          ax'[cur_m].magnitude = ax[cur_m].magnitude]_vars

\* the turn of the synchronous loop that is about to be taken issues nothing:
\* its axis is finished while the other is not, or it is held back below the
\* divergence threshold
SyncTurnSkips ==
    /\ pc = "sync_loop"
    /\ LET m == order[idx]
           s == order[CycleNext(idx)]
       IN  \/ ax[m].is_finished /\ ~AllFinished(ax)
           \/ /\ ~ax[m].is_finished
              /\ HeldBack(ax, m, s)
              /\ StepsDiff(ax, m, s) < axes_steps_diff

BothUnfinished == \A i \in 1..Len(order) : ~ax[order[i]].is_finished

\* C34: under the synchronous policy, while both axes are unfinished, a turn
\* that skips its axis is followed by a turn that does not: the other axis
\* enters _single_sync, which measures or moves it
C34_SyncNeverSkipsBoth ==
    [][(BothUnfinished /\ pc = "sync_loop" /\ pc' = "sync_loop")
          => ~SyncTurnSkips']_vars

\* x was skipped with both axes unfinished and y is about to be synchronized
C34_Witness ==
    /\ pc = "sync_loop"
    /\ chip = "accelerometer"
    /\ op = NoOp
    /\ BothUnfinished
    /\ order[idx] = "y"
    /\ ax["x"].magnitude < ax["y"].magnitude
    /\ StepsDiff(ax, "x", "y") < axes_steps_diff
    /\ ~SyncTurnSkips

\* ------------------------------------ the batch handler of the encoder
\* registrations of handle_batch the model lets pile up
MaxClients == 3
\* batches the sensor of the model produces
MaxBatches == 4

\* an encoder helper after construction, with its sensor; each batch is one
\* sample that carries the number of the batch
InitBatch ==
    /\ chip = "encoder"
    /\ sync_method = "sequential"
    /\ max_step_size = 1
    /\ retry_tolerance = [a \in AxisNames |-> 0]
    /\ max_retries = [a \in AxisNames |-> 0]
    /\ counting = TRUE
    /\ enc_values = MagValues \cup EncoderNegatives
    /\ measure_cap = MaxMeasures
    /\ ControllerIdle
    /\ WaitOff
    /\ CalcOff

\* EncoderHelper.flush_data: the fields of the helper after it
flush_data_helper(h) == [h EXCEPT !.is_finished = FALSE]

\* EncoderHelper.start_measurements, called by handle_state(axis, 'start'):
\* flush_data(), then add_client(self.handle_batch), which adds one more
\* registration to the sensor's list
StartMeasurements ==
    /\ ~helper.running
    /\ helper.clients < MaxClients
    /\ helper' = [flush_data_helper(helper) EXCEPT !.running = TRUE,
                                                   !.clients = @ + 1]
    /\ w_samples' = <<>>
    /\ UNCHANGED <<config_vars, calc_vars, ctl_vars, w_pc, w_clock, w_now,
                   w_lim, w_end>>

\* measure(axis): "axis.chip_helper.flush_data()"
FlushData ==
    /\ helper.running
    /\ helper' = flush_data_helper(helper)
    /\ w_samples' = <<>>
    /\ UNCHANGED <<config_vars, calc_vars, ctl_vars, w_pc, w_clock, w_now,
                   w_lim, w_end>>

\* EncoderHelper.finish_measurements, at the end of the run
FinishMeasurements ==
    /\ helper.running
    /\ helper' = [helper EXCEPT !.running = FALSE, !.is_finished = TRUE]
    /\ UNCHANGED <<config_vars, calc_vars, ctl_vars, w_pc, w_clock, w_now,
                   w_lim, w_samples, w_end>>

\* a measurement raised 'No data from encoder': the command ends and
\* finish_measurements was not called
RunAborted ==
    /\ helper.running
    /\ helper' = [helper EXCEPT !.running = FALSE]
    /\ UNCHANGED <<config_vars, calc_vars, ctl_vars, w_pc, w_clock, w_now,
                   w_lim, w_samples, w_end>>

\* EncoderHelper.handle_batch: <<the value returned, the buffer after it>>
handle_batch(h, samples, batch) ==
    IF h.is_finished
    THEN <<FALSE, samples>>
    ELSE <<TRUE, Append(samples, batch)>>

\* the buffer after n registrations of handle_batch were called with the batch
RECURSIVE Delivered(_, _, _, _)
Delivered(h, samples, batch, n) ==
    IF n = 0 THEN samples
    ELSE Delivered(h, handle_batch(h, samples, batch)[2], batch, n - 1)

\* the sensor hands a batch to every registered client and drops the
\* registrations whose call returned False
DeliverBatch ==
    /\ helper.clients > 0
    /\ helper.batches < MaxBatches
    /\ LET b == helper.batches + 1
           kept == handle_batch(helper, w_samples, b)[1]
       IN  /\ w_samples' = Delivered(helper, w_samples, b, helper.clients)
           /\ helper' = [helper EXCEPT !.batches = b,
                                       !.clients = IF kept THEN @ ELSE 0]
    /\ UNCHANGED <<config_vars, calc_vars, ctl_vars, w_pc, w_clock, w_now,
                   w_lim, w_end>>

NextBatch ==
    \/ StartMeasurements
    \/ FlushData
    \/ FinishMeasurements
    \/ RunAborted
    \/ DeliverBatch

SpecBatch == InitBatch /\ [][NextBatch]_vars

\* C35: at any time at most one registration of handle_batch is live, and
\* no batch is in the sample buffer more than once, whatever the order of
\* start_measurements, flush_data, finish_measurements, aborted runs and
\* batch deliveries
C35_OneRegistrationOneAppend ==
    /\ helper.clients <= 1
    /\ \A i, j \in 1..Len(w_samples) : w_samples[i] = w_samples[j] => i = j

\* C36: a measurement of an axis is issued only after the one
\* start_measurements of the axis in the run and before any
\* finish_measurements of it, and when the command returns (after the
\* 'done' finalization or the in-tolerance exit) each selected axis had
\* exactly one start_measurements and one finish_measurements
C36_StartAndFinishOncePerAxis ==
    /\ op.kind = "measure" =>
          started[op.axis] = 1 /\ finish_calls[op.axis] = 0
    /\ pc = "returned" =>
          \A a \in AxisNames :
             InRun(a) => started[a] = 1 /\ finish_calls[a] = 1

\* a run of both axes that moved them and returned
C36_Witness ==
    /\ pc = "returned"
    /\ axes = <<"x", "y">>
    /\ done_reports = {"x", "y"}
    /\ moved["x"] /\ moved["y"]
    /\ finish_calls["x"] = 1

\* C37: every step of the leveling pre-pass moves no axis but the main one,
\* which is the axis of the larger initial magnitude, and leaves the
\* cumulative offset, the direction, the retry counter and the finished flag
\* of the secondary axis as they were: the secondary axis is at most measured
C37_LevelingMovesMainOnly ==
    [][InAxesLevel(pc, ret) =>
          /\ ax[cur_m].init_magnitude > ax[cur_s].init_magnitude
          /\ op'.kind = "move" => op'.axis = cur_m
          /\ op'.kind = "measure" => op'.axis \in {cur_m, cur_s}
          /\ ax'[cur_s].actual_msteps = ax[cur_s].actual_msteps
          /\ ax'[cur_s].move_dir = ax[cur_s].move_dir
          /\ ax'[cur_s].dir_name = ax[cur_s].dir_name
          /\ ax'[cur_s].curr_retry = ax[cur_s].curr_retry
          /\ ax'[cur_s].is_finished = ax[cur_s].is_finished]_vars

\* the secondary axis was re-measured during the leveling, after the main
\* axis had been moved
C37_Witness ==
    /\ InAxesLevel(pc, ret)
    /\ op = MeasureOp(cur_s)
    /\ ax[cur_m].actual_msteps # 0
    /\ ax[cur_s].log_len = 2
    /\ ax[cur_s].actual_msteps = 0

\* C38: once the finished flag of an axis is set in a run, every later step
\* of the run leaves it set and issues no move and no measurement for the
\* axis, under each of the three policies
C38_FinishedIsFinal ==
    [][\A a \in AxisNames :
          (ax[a].is_finished /\ pc # "start") =>
              /\ ax'[a].is_finished
              /\ op'.kind # "none" => op'.axis # a]_vars

\* x is finished and y, still unfinished, was just measured after a move
C38_Witness ==
    /\ ax["x"].is_finished
    /\ ~ax["y"].is_finished
    /\ op = MeasureOp("y")
    /\ ax["y"].actual_msteps # 0
    /\ ax["x"].actual_msteps # 0

====
